---- MODULE Spec2Model ----
(***************************************************************************)
(* State-machine model of the CodeLogs REST backend (src/server.js) and of *)
(* the MongoDB collections and unique indexes it runs against              *)
(* (setupDatabase).  Every route handler is an async function: each await  *)
(* of a database call is a point where another request may run, so a       *)
(* handler is modelled as one action per database call, the action taking  *)
(* in the synchronous code that follows the call up to the next await.     *)
(***************************************************************************)
EXTENDS Integers, Sequences, FiniteSets, Bags, TLC

VARIABLES users, contents, follows, comments, likes, uploads, session,
          nextCommentId, nextLikeId, req, ops, overlap, script, clock, zone, faults, ui

vars == <<users, contents, follows, comments, likes, uploads, session,
          nextCommentId, nextLikeId, req, ops, overlap, script, clock, zone, faults, ui>>

db == <<users, contents, follows, comments, likes>>

(* ------------------------------ bounds -------------------------------- *)

\* number of requests the browser issues in one run
MaxOps == 3
\* number of requests that can be in flight at once
NSlots == 2

Slots == 1..NSlots

(* --------------------------- input alphabet --------------------------- *)

Usernames == {"alice", "bob"}
GoodPhone == "+97112345678"
GoodPassword == "secret1"
\* today's date as the server's clock reports it
Today == [y |-> 2026, m |-> 11, d |-> 3]
NoDate == [y |-> 0, m |-> 0, d |-> 0]
AdultDob == [y |-> 2000, m |-> 1, d |-> 1]
ChildDob == [y |-> 2020, m |-> 6, d |-> 15]

GoodText == <<"o", "k">>
BlankText == <<" ", " ">>
PaddedText == <<" ", "o", "k">>

NoFile == [name |-> "", ext |-> "", mime |-> "", size |-> 0]
ImageFile == [name |-> "me.png", ext |-> "png", mime |-> "image/png", size |-> 1]
DocFile == [name |-> "notes.pdf", ext |-> "pdf", mime |-> "application/pdf", size |-> 1]
ExeFile == [name |-> "run.exe", ext |-> "exe", mime |-> "application/x-msdownload", size |-> 1]

(* ------------------------- pure helper functions ---------------------- *)

\* the characters of each string of the input alphabet
Chars(s) ==
    CASE s = "alice" -> <<"a", "l", "i", "c", "e">>
      [] s = "bob" -> <<"b", "o", "b">>
      [] s = "carol" -> <<"c", "a", "r", "o", "l">>
      [] s = "al ice" -> <<"a", "l", " ", "i", "c", "e">>
      [] s = "alice@x.com" -> <<"a", "@", "x", ".", "c">>
      [] s = "bob@x.com" -> <<"b", "@", "x", ".", "c">>
      [] s = "alice.x.com" -> <<"a", ".", "x", ".", "c">>
      [] s = "+97112345678" -> <<"+", "9", "7", "1", "1", "2", "3", "4", "5", "6", "7", "8">>
      [] s = "12345678" -> <<"1", "2", "3", "4", "5", "6", "7", "8">>
      [] s = "secret1" -> <<"s", "e", "c", "r", "e", "t", "1">>
      [] s = "wrong12" -> <<"w", "r", "o", "n", "g", "1", "2">>
      [] s = "abc" -> <<"a", "b", "c">>
      [] s = "Hi" -> <<"H", "i">>
      [] s = "hi" -> <<"h", "i">>
      [] s = "Sort" -> <<"S", "o", "r", "t">>
      [] s = "python" -> <<"p", "y", "t", "h", "o", "n">>
      [] s = "Python" -> <<"P", "y", "t", "h", "o", "n">>
      [] s = "PY" -> <<"P", "Y">>
      [] s = " py " -> <<" ", "p", "y", " ">>
      [] s = "java" -> <<"j", "a", "v", "a">>
      [] s = "python tips" -> <<"p", "y", "t", "h", "o", "n", " ", "t", "i", "p", "s">>
      [] s = "." -> <<".">>
      [] s = "(" -> <<"(">>
      [] OTHER -> <<>>

IsBlank(c) == c \in {" ", "\t", "\n"}
IsDigit(c) == c \in {"0", "1", "2", "3", "4", "5", "6", "7", "8", "9"}

\* /\s/.test(username)
HasWhitespace(s) == \E i \in 1..Len(Chars(s)) : IsBlank(Chars(s)[i])

\* /^[^\s@]+@[^\s@]+\.[^\s@]+$/
isValidEmail(email) ==
    LET c == Chars(email)
        n == Len(c)
    IN \E i \in 2..n : \E j \in (i + 2)..(n - 1) :
          /\ c[i] = "@"
          /\ c[j] = "."
          /\ \A k \in (1..n) \ {i} : ~IsBlank(c[k]) /\ c[k] # "@"

\* strip blanks, dashes and parentheses, then /^\+[0-9]{1,4}[0-9]{8}$/
isValidPhoneNumber(phone) ==
    LET cleanPhone == SelectSeq(Chars(phone),
                                LAMBDA c : ~IsBlank(c) /\ c \notin {"-", "(", ")"})
        n == Len(cleanPhone)
    IN /\ n \in 10..13
       /\ cleanPhone[1] = "+"
       /\ \A k \in 2..n : IsDigit(cleanPhone[k])

PasswordLength(p) == Len(Chars(p))

IsLeap(y) == (y % 4 = 0 /\ y % 100 # 0) \/ y % 400 = 0

DaysIn(y, m) ==
    IF m = 2 THEN (IF IsLeap(y) THEN 29 ELSE 28)
    ELSE IF m \in {4, 6, 9, 11} THEN 30 ELSE 31

\* the calendar day before / after a date
PrevDay(date) ==
    IF date.d > 1 THEN [date EXCEPT !.d = date.d - 1]
    ELSE IF date.m > 1 THEN [y |-> date.y, m |-> date.m - 1, d |-> DaysIn(date.y, date.m - 1)]
    ELSE [y |-> date.y - 1, m |-> 12, d |-> 31]

NextDay(date) ==
    IF date.d < DaysIn(date.y, date.m) THEN [date EXCEPT !.d = date.d + 1]
    ELSE IF date.m < 12 THEN [y |-> date.y, m |-> date.m + 1, d |-> 1]
    ELSE [y |-> date.y + 1, m |-> 1, d |-> 1]

\* new Date('YYYY-MM-DD') is midnight UTC of that day; getFullYear, getMonth
\* and getDate read it in the server's zone (tz: hours ahead of UTC), where
\* it is still the evening before when the zone is behind UTC
NewDate(dob, tz) == IF tz < 0 THEN PrevDay(dob) ELSE dob

\* the string is a date: new Date(dob) is not an Invalid Date
IsValidDate(dob) == dob.m \in 1..12 /\ dob.d \in 1..DaysIn(dob.y, dob.m)

\* the getters of an Invalid Date return NaN, and so does arithmetic on it;
\* NaN is kept apart from every age
NaN == 0 - 9999

\* x < n in JavaScript: false when x is NaN
LessThan(x, n) == x # NaN /\ x < n

\* today: the server's local date; tz: the server's zone
calculateAge(dob, today, tz) ==
    IF ~IsValidDate(dob) THEN NaN
    ELSE LET birthDate == NewDate(dob, tz)
             age == today.y - birthDate.y
             monthDiff == today.m - birthDate.m
         IN IF monthDiff < 0 \/ (monthDiff = 0 /\ today.d < birthDate.d)
            THEN age - 1 ELSE age

\* a is an earlier day than b
DateLess(a, b) ==
    \/ a.y < b.y
    \/ a.y = b.y /\ a.m < b.m
    \/ a.y = b.y /\ a.m = b.m /\ a.d < b.d

\* AuthManager.validateDateOfBirth in the browser; today, tz: the browser's
\* local date and zone
validateDateOfBirth(dob, today, tz) ==
    IF ~IsValidDate(dob) \/ DateLess(today, NewDate(dob, tz)) THEN FALSE
    ELSE LET birthDate == NewDate(dob, tz)
             age == today.y - birthDate.y
             monthDiff == today.m - birthDate.m
         IN (IF monthDiff < 0 \/ (monthDiff = 0 /\ today.d < birthDate.d)
             THEN age - 1 ELSE age) >= 10

\* bcrypt.hash / bcrypt.compare: the hash is a one-way tag of the password
BcryptHash(p) == <<"bcrypt", p>>
BcryptCompare(p, h) == h = BcryptHash(p)

RECURSIVE TrimLeft(_)
TrimLeft(s) == IF s # <<>> /\ IsBlank(Head(s)) THEN TrimLeft(Tail(s)) ELSE s

RECURSIVE TrimRight(_)
TrimRight(s) ==
    IF s # <<>> /\ IsBlank(s[Len(s)]) THEN TrimRight(SubSeq(s, 1, Len(s) - 1)) ELSE s

Trim(s) == TrimRight(TrimLeft(s))

\* multer fileFilter: extension and mime type both on the allow-list
AllowedExt == {"jpeg", "jpg", "png", "gif", "pdf", "txt", "doc", "docx", "zip"}
\* mime types in which /jpeg|jpg|png|gif|pdf|txt|doc|docx|zip/ finds a match
AllowedMime == {"image/jpeg", "image/png", "image/gif", "application/pdf",
                "application/zip"}
fileFilter(file) == file.mime \in AllowedMime /\ file.ext \in AllowedExt

MaxFileSize == 5
IsImageMime(m) == m \in {"image/jpeg", "image/png", "image/gif"}

(* ------------------------------ sessions ------------------------------ *)

NoSession == [userId |-> 0, username |-> ""]
LoggedIn(s) == s.userId # 0

(* ------------------------------ responses ----------------------------- *)

\* a field that a document does not have reads as undefined
Undefined == 0
Field(doc, f) == IF f \in DOMAIN doc THEN doc[f] ELSE Undefined

\* the profile object of the profile response (its stats are in posts,
\* followers and following)
NoProfile == [username |-> "", email |-> "", profileImage |-> Undefined,
              isFollowing |-> FALSE]

NoResp == [status |-> 0, message |-> "", action |-> "", totalCount |-> 0, contents |-> <<>>,
           totalPages |-> 0, contentId |-> 0, loggedIn |-> FALSE, username |-> "",
           posts |-> 0, followers |-> 0, following |-> 0,
           likeCount |-> 0, dislikeCount |-> 0, userVote |-> "",
           users |-> {}, profile |-> NoProfile]
Resp(st, msg) == [NoResp EXCEPT !.status = st, !.message = msg]
RespAction(st, msg, act) == [NoResp EXCEPT !.status = st, !.message = msg, !.action = act]
RespList(st, msg, n, items) ==
    [NoResp EXCEPT !.status = st, !.message = msg, !.totalCount = n, !.contents = items]

(* --------------------------- request records -------------------------- *)

NoArg == [username |-> "", email |-> "", phone |-> "", dob |-> NoDate,
          password |-> "", title |-> "", description |-> "", code |-> "", language |-> "",
          file |-> NoFile, postId |-> 0, commentId |-> 0, text |-> <<>>,
          isLike |-> FALSE, page |-> 0, limit |-> 0, q |-> ""]

NoLoc == [uid |-> 0, uname |-> "", hash |-> <<>>, likeId |-> 0, followed |-> {},
          total |-> 0, file |-> 0, posts |-> 0, followers |-> 0, following |-> 0,
          user |-> {}]

IdleReq == [pc |-> "idle", kind |-> "", sess |-> NoSession, arg |-> NoArg,
            loc |-> NoLoc, resp |-> NoResp]

\* the requests the browser is going to send, in order; Unscripted when the
\* user may send any request
Request(kind, arg) == [kind |-> kind, arg |-> arg]
Unscripted == <<Request("*", NoArg)>>

\* the follow button of the profile page: its 'hidden' and 'following' classes
NoButton == [hidden |-> TRUE, following |-> FALSE]

\* the parsed body of a response, as far as the page looks at it
NoData == [success |-> FALSE, isFollowing |-> FALSE]

\* the single-page client before any script of it has run: currentPage,
\* ProfileManager's isLoadingProfile and currentProfileUser, the follow
\* button, the async calls in progress, and what has happened so far (clicks
\* of the user, the deepest nesting of calls, the profile whose follow or
\* unfollow request has succeeded since the last click)
NoUi == [page |-> "", isLoadingProfile |-> FALSE, currentProfileUser |-> "",
         button |-> NoButton, tasks |-> <<>>, clicks |-> 0, depth |-> 0,
         toggled |-> ""]

(* ---------------------------- initial state --------------------------- *)

UserDoc(id, username, email, phone, dob, hash) ==
    [_id |-> id, username |-> username, email |-> email, phone |-> phone,
     dob |-> dob, password |-> hash, profilePicture |-> 0]

PostDoc(id, title, description, code, language, author, authorId, fileUrl) ==
    [_id |-> id, title |-> title, description |-> description, code |-> code,
     programmingLanguage |-> language, author |-> author, authorId |-> authorId,
     fileUrl |-> fileUrl]

CommentDoc(id, postId, author, userId, text) ==
    [_id |-> id, postId |-> postId, author |-> author, userId |-> userId, text |-> text]

LikeDoc(id, postId, user, userId, isLike) ==
    [_id |-> id, postId |-> postId, user |-> user, userId |-> userId, isLike |-> isLike]

FollowDoc(follower, following) == [follower |-> follower, following |-> following]

\* the database the server connects to: freshly set up, or already holding
\* two accounts, one post of alice and one comment of alice on it
SeedUsers ==
    {UserDoc(1, "alice", "alice@x.com", GoodPhone, AdultDob, BcryptHash(GoodPassword)),
     UserDoc(2, "bob", "bob@x.com", GoodPhone, AdultDob, BcryptHash(GoodPassword))}
SeedContents == {PostDoc(1, "Hi", "", "print(1)", "python", "alice", 1, 0)}
SeedComments == {CommentDoc(1, 1, "alice", 1, GoodText)}

Started ==
    /\ \/ /\ users = {}
          /\ contents = {}
          /\ comments = {}
          /\ nextCommentId = 1
       \/ /\ users = SeedUsers
          /\ contents = SeedContents
          /\ comments = SeedComments
          /\ nextCommentId = 2
    /\ follows = EmptyBag
    /\ likes = {}
    /\ nextLikeId = 1
    /\ uploads = 0
    /\ session = NoSession
    /\ req = [r \in Slots |-> IdleReq]
    /\ ops = 0
    /\ script = Unscripted
    /\ clock = Today
    /\ zone = 0
    /\ faults = 0
    /\ ui = NoUi

\* a database that has been in use: alice has three posts and bob one, and
\* both have voted on alice's first post
UsedContents ==
    {PostDoc(1, "Hi", "", "print(1)", "python", "alice", 1, 0),
     PostDoc(2, "Sort", "python tips", "print(1)", "java", "bob", 2, 0),
     PostDoc(3, "Sort", "", "print(1)", "Python", "alice", 1, 0),
     PostDoc(4, "Hi", "", "print(1)", "java", "alice", 1, 0)}
UsedLikes == {LikeDoc(1, 1, "alice", 1, TRUE), LikeDoc(2, 1, "bob", 2, FALSE)}

\* the browser may send a request again (a second click on the same form)
\* while its earlier requests to that route are still being served
Init == Started /\ overlap = TRUE

\* the browser waits for each response before it sends the next request
SeqInit == Started /\ overlap = FALSE

(* --------------------------- request plumbing ------------------------- *)

\* a request arrives: express-session loads the session named by the cookie
Begin(r, kind, arg) ==
    /\ req[r].pc = "idle"
    /\ \A s \in Slots : s < r => req[s].pc # "idle"
    /\ \A s \in Slots : req[s].pc # "idle" => overlap /\ req[s].kind = kind
    /\ IF script = Unscripted
       THEN ops < MaxOps /\ script' = script
       ELSE script # <<>> /\ Head(script) = Request(kind, arg) /\ script' = Tail(script)
    /\ ops' = ops + 1
    /\ overlap' = overlap
    /\ clock' = clock
    /\ zone' = zone
    /\ faults' = faults
    /\ ui' = ui

Arrived(r, kind, arg) ==
    [IdleReq EXCEPT !.kind = kind, !.sess = session, !.arg = arg]

Reply(q, resp) == [q EXCEPT !.pc = "done", !.resp = resp]
Goto(q, pc) == [q EXCEPT !.pc = pc]

At(r, pc) == req[r].pc = pc

\* the response is delivered and the connection is free again
Release(r) ==
    /\ At(r, "done")
    /\ req' = [req EXCEPT ![r] = IdleReq]
    /\ UNCHANGED <<users, contents, follows, comments, likes, uploads, session,
                   nextCommentId, nextLikeId, ops, overlap, script, clock, zone, faults, ui>>

\* the cookie reaches its maxAge and the session is dropped
Expire ==
    /\ LoggedIn(session)
    /\ session' = NoSession
    /\ UNCHANGED <<users, contents, follows, comments, likes, uploads,
                   nextCommentId, nextLikeId, req, ops, overlap, script, clock, zone, faults, ui>>

(* ------------------------- storage-layer helpers ----------------------- *)

\* only the { username: 1 } index exists
UsersIndexAccepts_UsernameOnly(us, doc) ==
    \A u \in us : u.username # doc.username

\* unique indexes { username: 1 } and { email: 1 } on users
UsersIndexAccepts(us, doc) ==
    \A u \in us : u.username # doc.username /\ u.email # doc.email

\* the follows collection has no unique index
FollowsIndexAccepts_NoIndex(fs, doc) == TRUE

\* unique index { follower: 1, following: 1 } on follows
FollowsIndexAccepts(fs, doc) == ~BagIn(doc, fs)

\* the likes collection has no unique index
LikesIndexAccepts_NoIndex(ls, doc) == TRUE

\* unique index { postId: 1, user: 1 } on likes
LikesIndexAccepts(ls, doc) ==
    \A l \in ls : ~(l.postId = doc.postId /\ l.user = doc.user)

\* a fresh ObjectId in a collection whose documents are never deleted
NewId(coll) == Cardinality(coll) + 1

Bag1(doc) == SetToBag({doc})

(* ---------------------- POST /users  (register) ----------------------- *)

RegisterInputs ==
    LET ok(u, e) == [NoArg EXCEPT !.username = u, !.email = e, !.phone = GoodPhone,
                                  !.dob = AdultDob, !.password = GoodPassword]
        base == ok("alice", "alice@x.com")
    IN {ok("alice", "alice@x.com"), ok("alice", "bob@x.com"), ok("bob", "bob@x.com")}
       \cup {[base EXCEPT !.username = ""], [base EXCEPT !.username = "al ice"],
             [base EXCEPT !.email = "alice.x.com"], [base EXCEPT !.phone = "12345678"],
             [base EXCEPT !.password = "abc"], [base EXCEPT !.dob = ChildDob]}

RegisterValidation(a) ==
    IF a.username = "" \/ a.email = "" \/ a.phone = "" \/ a.dob = NoDate \/ a.password = ""
    THEN Resp(400, "All fields (username, email, phone, dob, password) are required.")
    ELSE IF HasWhitespace(a.username)
    THEN Resp(400, "Username cannot contain spaces.")
    ELSE IF ~isValidEmail(a.email)
    THEN Resp(400, "Invalid email format.")
    ELSE IF ~isValidPhoneNumber(a.phone)
    THEN Resp(400, "Invalid phone number format. Required format: country code + 8 digits (e.g., +97112345678).")
    ELSE IF PasswordLength(a.password) < 6
    THEN Resp(400, "Password must be at least 6 characters long.")
    ELSE IF LessThan(calculateAge(a.dob, clock, zone), 10)
    THEN Resp(400, "You must be at least 10 years old to register.")
    ELSE NoResp

\* the registration form the script submits next
ScriptedRegistration ==
    IF script # <<>> /\ Head(script).kind = "register" THEN {Head(script).arg} ELSE {}

Register(r) ==
    \E a \in RegisterInputs \cup ScriptedRegistration :
        /\ Begin(r, "register", a)
        /\ LET q == Arrived(r, "register", a)
               v == RegisterValidation(a)
           IN req' = [req EXCEPT ![r] = IF v # NoResp THEN Reply(q, v)
                                         ELSE Goto(q, "register_find")]
        /\ UNCHANGED <<users, contents, follows, comments, likes, uploads, session,
                       nextCommentId, nextLikeId>>

\* usersCollection.findOne({ $or: [{ username }, { email }] })
RegisterFind(r) ==
    /\ At(r, "register_find")
    /\ LET q == req[r]
           existingUser == {u \in users : u.username = q.arg.username
                                             \/ u.email = q.arg.email}
       IN req' = [req EXCEPT ![r] =
                     IF existingUser # {}
                     THEN Reply(q, Resp(400, "Username or email already exists."))
                     ELSE Goto(q, "register_insert")]
    /\ UNCHANGED <<users, contents, follows, comments, likes, uploads, session,
                   nextCommentId, nextLikeId, ops, overlap, script, clock, zone, faults, ui>>

\* bcrypt.hash, then usersCollection.insertOne(newUser)
RegisterInsert(r) ==
    /\ At(r, "register_insert")
    /\ LET q == req[r]
           newUser == UserDoc(NewId(users), q.arg.username, q.arg.email, q.arg.phone,
                              q.arg.dob, BcryptHash(q.arg.password))
       IN IF UsersIndexAccepts(users, newUser)
          THEN /\ users' = users \cup {newUser}
               /\ req' = [req EXCEPT ![r] = Reply(q, Resp(201, "User registered successfully."))]
          ELSE /\ users' = users
               /\ req' = [req EXCEPT ![r] =
                             Reply(q, Resp(500, "Internal server error during registration."))]
    /\ UNCHANGED <<contents, follows, comments, likes, uploads, session,
                   nextCommentId, nextLikeId, ops, overlap, script, clock, zone, faults, ui>>

(* ----------------------- POST / DELETE /login ------------------------- *)

\* the lookup failure names its cause
UnknownUserReply_Distinct == Resp(404, "User not found.")

\* the reply when findOne returns no user
UnknownUserReply == Resp(401, "Invalid username or password.")

\* the reply when bcrypt.compare returns false
WrongPasswordReply == Resp(401, "Invalid username or password.")

LoginInputs ==
    {[NoArg EXCEPT !.username = u, !.password = GoodPassword] : u \in Usernames \cup {"carol"}}
    \cup {[NoArg EXCEPT !.username = "alice", !.password = "wrong12"],
          [NoArg EXCEPT !.username = "alice"]}

Login(r) ==
    \E a \in LoginInputs :
        /\ Begin(r, "login", a)
        /\ LET q == Arrived(r, "login", a)
           IN req' = [req EXCEPT ![r] =
                         IF a.username = "" \/ a.password = ""
                         THEN Reply(q, Resp(400, "Username and password are required."))
                         ELSE Goto(q, "login_find")]
        /\ UNCHANGED <<users, contents, follows, comments, likes, uploads, session,
                       nextCommentId, nextLikeId>>

\* usersCollection.findOne({ username })
LoginFind(r) ==
    /\ At(r, "login_find")
    /\ LET q == req[r]
           found == {u \in users : u.username = q.arg.username}
       IN IF found = {}
          THEN req' = [req EXCEPT ![r] = Reply(q, UnknownUserReply)]
          ELSE \E user \in found :
                  req' = [req EXCEPT ![r] =
                             [Goto(q, "login_compare") EXCEPT !.loc.uid = user._id,
                                                              !.loc.uname = user.username,
                                                              !.loc.hash = user.password]]
    /\ UNCHANGED <<users, contents, follows, comments, likes, uploads, session,
                   nextCommentId, nextLikeId, ops, overlap, script, clock, zone, faults, ui>>

\* bcrypt.compare, then the session is filled in and saved with the response
LoginCompare(r) ==
    /\ At(r, "login_compare")
    /\ LET q == req[r]
       IN IF ~BcryptCompare(q.arg.password, q.loc.hash)
          THEN /\ req' = [req EXCEPT ![r] = Reply(q, WrongPasswordReply)]
               /\ session' = session
          ELSE /\ req' = [req EXCEPT ![r] = Reply(q, Resp(200, "Login successful."))]
               /\ session' = [userId |-> q.loc.uid, username |-> q.loc.uname]
    /\ UNCHANGED <<users, contents, follows, comments, likes, uploads,
                   nextCommentId, nextLikeId, ops, overlap, script, clock, zone, faults, ui>>

\* GET /login: answered from the session alone, without a database call
LoginStatus(r) ==
    /\ Begin(r, "status", NoArg)
    /\ LET q == Arrived(r, "status", NoArg)
           loggedIn == q.sess.userId # 0
       IN req' = [req EXCEPT ![r] =
                     Reply(q, [Resp(200, "") EXCEPT !.loggedIn = loggedIn,
                                                    !.username = q.sess.username])]
    /\ UNCHANGED <<users, contents, follows, comments, likes, uploads, session,
                   nextCommentId, nextLikeId>>

\* req.session.destroy
Logout(r) ==
    /\ Begin(r, "logout", NoArg)
    /\ req' = [req EXCEPT ![r] = Reply(Arrived(r, "logout", NoArg), Resp(200, "Logout successful."))]
    /\ session' = NoSession
    /\ UNCHANGED <<users, contents, follows, comments, likes, uploads,
                   nextCommentId, nextLikeId>>

(* ------------------- multer: upload.single(fieldName) ------------------ *)

BigFile == [name |-> "big.png", ext |-> "png", mime |-> "image/png", size |-> MaxFileSize + 1]

\* the middleware passes the request on, or hands an error to the global handler
UploadAccepts(file) == file = NoFile \/ (fileFilter(file) /\ file.size <= MaxFileSize)

\* number of files in the uploads directory once the middleware has run
UploadStore(n, file) == IF file # NoFile /\ UploadAccepts(file) THEN n + 1 ELSE n

UnexpectedError == Resp(500, "An unexpected error occurred.")

(* --------------------------- POST /contents --------------------------- *)

ContentInputs ==
    LET ok(f) == [NoArg EXCEPT !.title = "Hi", !.code = "print(1)", !.language = "python",
                               !.file = f]
    IN {ok(f) : f \in {NoFile, DocFile, ExeFile, BigFile}}
       \cup {[ok(NoFile) EXCEPT !.title = ""], [ok(NoFile) EXCEPT !.code = ""],
             [ok(DocFile) EXCEPT !.language = ""]}

CreateContent(r) ==
    \E a \in ContentInputs :
        /\ Begin(r, "content", a)
        /\ uploads' = UploadStore(uploads, a.file)
        /\ LET q == Arrived(r, "content", a)
           IN req' = [req EXCEPT ![r] =
                CASE ~UploadAccepts(a.file) -> Reply(q, UnexpectedError)
                  [] UploadAccepts(a.file) /\ ~LoggedIn(q.sess) ->
                        Reply(q, Resp(401, "Please login to create content."))
                  [] UploadAccepts(a.file) /\ LoggedIn(q.sess)
                        /\ (a.title = "" \/ a.code = "" \/ a.language = "") ->
                        Reply(q, Resp(400, "Title, code, and programmingLanguage are required fields."))
                  [] OTHER -> [Goto(q, "content_insert") EXCEPT
                                  !.loc.file = IF a.file = NoFile THEN 0 ELSE uploads']]
        /\ UNCHANGED <<users, contents, follows, comments, likes, session,
                       nextCommentId, nextLikeId>>

\* contentsCollection.insertOne(newContent)
ContentInsert(r) ==
    /\ At(r, "content_insert")
    /\ LET q == req[r]
           fileUrl == q.loc.file
           newContent == PostDoc(NewId(contents), q.arg.title, q.arg.description, q.arg.code,
                                 q.arg.language, q.sess.username, q.sess.userId, fileUrl)
       IN /\ contents' = contents \cup {newContent}
          /\ req' = [req EXCEPT ![r] =
                        Reply(q, [Resp(201, "Content created successfully.")
                                     EXCEPT !.contentId = newContent._id])]
    /\ UNCHANGED <<users, follows, comments, likes, uploads, session,
                   nextCommentId, nextLikeId, ops, overlap, script, clock, zone, faults, ui>>

(* ------------------------ POST / DELETE /follow ------------------------ *)

\* the self-follow test is missing
IsSelfFollow_Missing(target, sess) == FALSE

\* username === req.session.username
IsSelfFollow(target, sess) == target = sess.username

\* the lookup has follower and following the wrong way round
FindFollow_Reversed(fs, follower, following) == BagIn(FollowDoc(following, follower), fs)

\* followsCollection.findOne({ follower, following }) found a document
FindFollow(fs, follower, following) == BagIn(FollowDoc(follower, following), fs)

FollowInputs == {[NoArg EXCEPT !.username = u] : u \in Usernames \cup {"carol", ""}}

Follow(r) ==
    \E a \in FollowInputs :
        /\ Begin(r, "follow", a)
        /\ LET q == Arrived(r, "follow", a)
           IN req' = [req EXCEPT ![r] =
                CASE ~LoggedIn(q.sess) -> Reply(q, Resp(401, "Please login to follow users."))
                  [] LoggedIn(q.sess) /\ a.username = "" ->
                        Reply(q, Resp(400, "Username is required."))
                  [] LoggedIn(q.sess) /\ a.username # "" /\ IsSelfFollow(a.username, q.sess) ->
                        Reply(q, Resp(400, "You cannot follow yourself."))
                  [] OTHER -> Goto(q, "follow_findUser")]
        /\ UNCHANGED <<users, contents, follows, comments, likes, uploads, session,
                       nextCommentId, nextLikeId>>

\* usersCollection.findOne({ username })
FollowFindUser(r) ==
    /\ At(r, "follow_findUser")
    /\ LET q == req[r]
           targetUser == {u \in users : u.username = q.arg.username}
       IN req' = [req EXCEPT ![r] = IF targetUser = {}
                                     THEN Reply(q, Resp(404, "User not found."))
                                     ELSE Goto(q, "follow_findEdge")]
    /\ UNCHANGED <<users, contents, follows, comments, likes, uploads, session,
                   nextCommentId, nextLikeId, ops, overlap, script, clock, zone, faults, ui>>

\* followsCollection.findOne({ follower, following })
FollowFindEdge(r) ==
    /\ At(r, "follow_findEdge")
    /\ LET q == req[r]
           existingFollow == FindFollow(follows, q.sess.username, q.arg.username)
       IN req' = [req EXCEPT ![r] = IF existingFollow
                                     \* the messages of this route end in the target's name
                                     THEN Reply(q, Resp(400, "You are already following."))
                                     ELSE Goto(q, "follow_insert")]
    /\ UNCHANGED <<users, contents, follows, comments, likes, uploads, session,
                   nextCommentId, nextLikeId, ops, overlap, script, clock, zone, faults, ui>>

\* followsCollection.insertOne({ follower, following, ... })
FollowInsert(r) ==
    /\ At(r, "follow_insert")
    /\ LET q == req[r]
           doc == FollowDoc(q.sess.username, q.arg.username)
       IN IF FollowsIndexAccepts(follows, doc)
          THEN /\ follows' = follows (+) Bag1(doc)
               /\ req' = [req EXCEPT ![r] = Reply(q, Resp(200, "You are now following."))]
          ELSE /\ follows' = follows
               /\ req' = [req EXCEPT ![r] =
                             Reply(q, Resp(500, "Internal server error during follow operation."))]
    /\ UNCHANGED <<users, contents, comments, likes, uploads, session,
                   nextCommentId, nextLikeId, ops, overlap, script, clock, zone, faults, ui>>

Unfollow(r) ==
    \E a \in FollowInputs :
        /\ Begin(r, "unfollow", a)
        /\ LET q == Arrived(r, "unfollow", a)
           IN req' = [req EXCEPT ![r] =
                CASE ~LoggedIn(q.sess) -> Reply(q, Resp(401, "Please login to unfollow users."))
                  [] LoggedIn(q.sess) /\ a.username = "" ->
                        Reply(q, Resp(400, "Username is required."))
                  [] OTHER -> Goto(q, "unfollow_delete")]
        /\ UNCHANGED <<users, contents, follows, comments, likes, uploads, session,
                       nextCommentId, nextLikeId>>

\* followsCollection.deleteOne({ follower, following })
UnfollowDelete(r) ==
    /\ At(r, "unfollow_delete")
    /\ LET q == req[r]
           doc == FollowDoc(q.sess.username, q.arg.username)
       IN IF BagIn(doc, follows)
          THEN /\ follows' = follows (-) Bag1(doc)
               /\ req' = [req EXCEPT ![r] = Reply(q, Resp(200, "You have unfollowed."))]
          ELSE /\ follows' = follows
               /\ req' = [req EXCEPT ![r] = Reply(q, Resp(404, "You are not following."))]
    /\ UNCHANGED <<users, contents, comments, likes, uploads, session,
                   nextCommentId, nextLikeId, ops, overlap, script, clock, zone, faults, ui>>

(* ------------------------------ GET /feed ----------------------------- *)

RECURSIVE NewestFirst(_)
\* .sort({ createdAt: -1 }).toArray(): ObjectIds grow with creation time
NewestFirst(docs) ==
    IF docs = {} THEN <<>>
    ELSE LET newest == CHOOSE d \in docs : \A e \in docs : e._id <= d._id
         IN <<newest>> \o NewestFirst(docs \ {newest})

\* the skip is ignored
SkipLimit_NoSkip(seq, skip, limit) ==
    SubSeq(seq, 1, IF limit < Len(seq) THEN limit ELSE Len(seq))

\* .skip(skip).limit(limit)
SkipLimit(seq, skip, limit) ==
    SubSeq(seq, skip + 1, IF skip + limit < Len(seq) THEN skip + limit ELSE Len(seq))

\* parseInt(req.query.x) || dflt
ParamOr(x, dflt) == IF x = 0 THEN dflt ELSE x

Ids(seq) == [i \in 1..Len(seq) |-> seq[i]._id]

Feed(r) ==
    /\ Begin(r, "feed", NoArg)
    /\ LET q == Arrived(r, "feed", NoArg)
       IN req' = [req EXCEPT ![r] =
                     IF ~LoggedIn(q.sess)
                     THEN Reply(q, Resp(401, "Please login to view your feed."))
                     ELSE Goto(q, "feed_following")]
    /\ UNCHANGED <<users, contents, follows, comments, likes, uploads, session,
                   nextCommentId, nextLikeId>>

\* the lookup returns the user's followers
FollowedBy_Followers(fs, username) ==
    {f.follower : f \in {g \in BagToSet(fs) : g.following = username}}

\* followingList.map(follow => follow.following)
FollowedBy(fs, username) ==
    {f.following : f \in {g \in BagToSet(fs) : g.follower = username}}

\* an empty follow list is reported as an error
EmptyFeedReply_NotFound == Resp(404, "No followed users.")

\* the response when followedUsernames is empty
EmptyFeedReply ==
    RespList(200, "Your feed is empty. Follow users to see their posts.", 0, <<>>)

\* followsCollection.find({ follower }).toArray()
FeedFollowing(r) ==
    /\ At(r, "feed_following")
    /\ LET q == req[r]
           followedUsernames == FollowedBy(follows, q.sess.username)
       IN req' = [req EXCEPT ![r] =
                     IF followedUsernames = {}
                     THEN Reply(q, EmptyFeedReply)
                     ELSE [Goto(q, "feed_count") EXCEPT !.loc.followed = followedUsernames]]
    /\ UNCHANGED <<users, contents, follows, comments, likes, uploads, session,
                   nextCommentId, nextLikeId, ops, overlap, script, clock, zone, faults, ui>>

\* contentsCollection.countDocuments({ author: { $in: followedUsernames } })
FeedCount(r) ==
    /\ At(r, "feed_count")
    /\ LET q == req[r]
           totalCount == Cardinality({c \in contents : c.author \in q.loc.followed})
       IN req' = [req EXCEPT ![r] = [Goto(q, "feed_find") EXCEPT !.loc.total = totalCount]]
    /\ UNCHANGED <<users, contents, follows, comments, likes, uploads, session,
                   nextCommentId, nextLikeId, ops, overlap, script, clock, zone, faults, ui>>

\* contentsCollection.find({ author: { $in } }).sort().skip().limit().toArray()
FeedFind(r) ==
    /\ At(r, "feed_find")
    /\ LET q == req[r]
           page == ParamOr(q.arg.page, 1)
           limit == ParamOr(q.arg.limit, 20)
           found == NewestFirst({c \in contents : c.author \in q.loc.followed})
       IN req' = [req EXCEPT ![r] =
                     Reply(q, RespList(200, "Feed retrieved successfully.", q.loc.total,
                                       Ids(SkipLimit(found, (page - 1) * limit, limit))))]
    /\ UNCHANGED <<users, contents, follows, comments, likes, uploads, session,
                   nextCommentId, nextLikeId, ops, overlap, script, clock, zone, faults, ui>>

(* -------------------- POST /upload/profile-picture -------------------- *)

PictureInputs == {[NoArg EXCEPT !.file = f] : f \in {NoFile, ImageFile, DocFile, ExeFile}}

UploadPicture(r) ==
    \E a \in PictureInputs :
        /\ Begin(r, "picture", a)
        /\ uploads' = UploadStore(uploads, a.file)
        /\ LET q == Arrived(r, "picture", a)
           IN req' = [req EXCEPT ![r] =
                CASE ~UploadAccepts(a.file) -> Reply(q, UnexpectedError)
                  [] UploadAccepts(a.file) /\ ~LoggedIn(q.sess) ->
                        Reply(q, Resp(401, "Please login to upload profile picture."))
                  [] UploadAccepts(a.file) /\ LoggedIn(q.sess) /\ a.file = NoFile ->
                        Reply(q, Resp(400, "No file uploaded."))
                  [] UploadAccepts(a.file) /\ LoggedIn(q.sess) /\ a.file # NoFile
                        /\ ~IsImageMime(a.file.mime) ->
                        Reply(q, Resp(400, "Only image files are allowed for profile pictures."))
                  [] OTHER -> [Goto(q, "picture_update") EXCEPT !.loc.file = uploads']]
        /\ UNCHANGED <<users, contents, follows, comments, likes, session,
                       nextCommentId, nextLikeId>>

\* usersCollection.updateOne({ _id }, { $set: { profilePicture } })
PictureUpdate(r) ==
    /\ At(r, "picture_update")
    /\ LET q == req[r]
       IN /\ users' = {IF u._id = q.sess.userId
                       THEN [u EXCEPT !.profilePicture = q.loc.file] ELSE u : u \in users}
          /\ req' = [req EXCEPT ![r] = Reply(q, Resp(200, "Profile picture uploaded successfully."))]
    /\ UNCHANGED <<contents, follows, comments, likes, uploads, session,
                   nextCommentId, nextLikeId, ops, overlap, script, clock, zone, faults, ui>>

(* ---------------- POST /posts/:postId/comments, DELETE ---------------- *)

UnknownPost == 9
\* a :postId path segment that is not 24 hex digits, such as "abc"
MalformedId == 0 - 1

\* new ObjectId(id) returns an id; it throws when the string is malformed
IsObjectId(id) == id # MalformedId

CommentInputs ==
    {[NoArg EXCEPT !.postId = 1, !.text = t] : t \in {GoodText, PaddedText, BlankText, <<>>}}
    \cup {[NoArg EXCEPT !.postId = p, !.text = GoodText] : p \in {UnknownPost, MalformedId}}

AddComment(r) ==
    \E a \in CommentInputs :
        /\ Begin(r, "comment", a)
        /\ LET q == Arrived(r, "comment", a)
           IN req' = [req EXCEPT ![r] =
                CASE ~LoggedIn(q.sess) -> Reply(q, Resp(401, "Please login to add comments."))
                  [] LoggedIn(q.sess) /\ (a.text = <<>> \/ Len(Trim(a.text)) = 0) ->
                        Reply(q, Resp(400, "Comment text is required."))
                  \* the ObjectId constructor throws into the handler's catch
                  [] LoggedIn(q.sess) /\ a.text # <<>> /\ Len(Trim(a.text)) # 0
                        /\ ~IsObjectId(a.postId) ->
                        Reply(q, Resp(500, "Internal server error while adding comment."))
                  [] OTHER -> Goto(q, "comment_findPost")]
        /\ UNCHANGED <<users, contents, follows, comments, likes, uploads, session,
                       nextCommentId, nextLikeId>>

\* the lookup returns a post whatever the id
FindPost_Any(cs, id) == cs

\* contentsCollection.findOne({ _id: new ObjectId(postId) })
FindPost(cs, id) == {c \in cs : c._id = id}

\* contentsCollection.findOne({ _id: postId })
CommentFindPost(r) ==
    /\ At(r, "comment_findPost")
    /\ LET q == req[r]
           post == FindPost(contents, q.arg.postId)
       IN req' = [req EXCEPT ![r] = IF post = {}
                                     THEN Reply(q, Resp(404, "Post not found."))
                                     ELSE Goto(q, "comment_insert")]
    /\ UNCHANGED <<users, contents, follows, comments, likes, uploads, session,
                   nextCommentId, nextLikeId, ops, overlap, script, clock, zone, faults, ui>>

\* commentsCollection.insertOne(comment)
CommentInsert(r) ==
    /\ At(r, "comment_insert")
    /\ LET q == req[r]
           comment == CommentDoc(nextCommentId, q.arg.postId, q.sess.username,
                                 q.sess.userId, Trim(q.arg.text))
       IN /\ comments' = comments \cup {comment}
          /\ nextCommentId' = nextCommentId + 1
          /\ req' = [req EXCEPT ![r] = Reply(q, Resp(201, "Comment added successfully."))]
    /\ UNCHANGED <<users, contents, follows, likes, uploads, session, nextLikeId,
                   ops, overlap, script, clock, zone, faults, ui>>

CommentIds == 1..2

DeleteComment(r) ==
    \E id \in CommentIds :
        LET a == [NoArg EXCEPT !.commentId = id]
            q == Arrived(r, "deleteComment", a)
        IN /\ Begin(r, "deleteComment", a)
           /\ req' = [req EXCEPT ![r] =
                         IF ~LoggedIn(q.sess)
                         THEN Reply(q, Resp(401, "Please login to delete comments."))
                         ELSE Goto(q, "delete_find")]
           /\ UNCHANGED <<users, contents, follows, comments, likes, uploads, session,
                          nextCommentId, nextLikeId>>

\* the author test is missing
MayDelete_Anyone(comment, sess) == TRUE

\* the author test applied to the comment that findOne returned
MayDelete(comment, sess) == comment.author = sess.username

\* commentsCollection.findOne({ _id: commentId }), then the author check
DeleteFind(r) ==
    /\ At(r, "delete_find")
    /\ LET q == req[r]
           found == {c \in comments : c._id = q.arg.commentId}
       IN req' = [req EXCEPT ![r] =
            CASE found = {} -> Reply(q, Resp(404, "Comment not found."))
              [] found # {} /\ (\E comment \in found : ~MayDelete(comment, q.sess)) ->
                    Reply(q, Resp(403, "You can only delete your own comments."))
              [] OTHER -> Goto(q, "delete_delete")]
    /\ UNCHANGED <<users, contents, follows, comments, likes, uploads, session,
                   nextCommentId, nextLikeId, ops, overlap, script, clock, zone, faults, ui>>

\* commentsCollection.deleteOne({ _id: commentId })
DeleteDelete(r) ==
    /\ At(r, "delete_delete")
    /\ LET q == req[r]
       IN /\ comments' = {c \in comments : c._id # q.arg.commentId}
          /\ req' = [req EXCEPT ![r] = Reply(q, Resp(200, "Comment deleted successfully."))]
    /\ UNCHANGED <<users, contents, follows, likes, uploads, session,
                   nextCommentId, nextLikeId, ops, overlap, script, clock, zone, faults, ui>>

(* ----------------------- POST /posts/:postId/like --------------------- *)

VoteInputs ==
    {[NoArg EXCEPT !.postId = 1, !.isLike = b] : b \in BOOLEAN}
    \cup {[NoArg EXCEPT !.postId = UnknownPost, !.isLike = TRUE]}

Vote(r) ==
    \E a \in VoteInputs :
        /\ Begin(r, "vote", a)
        /\ LET q == Arrived(r, "vote", a)
           IN req' = [req EXCEPT ![r] =
                         IF ~LoggedIn(q.sess)
                         THEN Reply(q, Resp(401, "Please login to like posts."))
                         ELSE Goto(q, "vote_findPost")]
        /\ UNCHANGED <<users, contents, follows, comments, likes, uploads, session,
                       nextCommentId, nextLikeId>>

\* contentsCollection.findOne({ _id: postId })
VoteFindPost(r) ==
    /\ At(r, "vote_findPost")
    /\ LET q == req[r]
           post == FindPost(contents, q.arg.postId)
       IN req' = [req EXCEPT ![r] = IF post = {}
                                     THEN Reply(q, Resp(404, "Post not found."))
                                     ELSE Goto(q, "vote_findLike")]
    /\ UNCHANGED <<users, contents, follows, comments, likes, uploads, session,
                   nextCommentId, nextLikeId, ops, overlap, script, clock, zone, faults, ui>>

\* the two branches are the wrong way round
VoteBranch_Swapped(existingLike, isLike) ==
    IF existingLike.isLike = isLike THEN "vote_update" ELSE "vote_remove"

\* the branch taken once findOne has returned existingLike
VoteBranch(existingLike, isLike) ==
    IF existingLike.isLike = isLike THEN "vote_remove" ELSE "vote_update"

\* likesCollection.findOne({ postId, user })
VoteFindLike(r) ==
    /\ At(r, "vote_findLike")
    /\ LET q == req[r]
           found == {l \in likes : l.postId = q.arg.postId /\ l.user = q.sess.username}
       IN IF found = {}
          THEN req' = [req EXCEPT ![r] = Goto(q, "vote_insert")]
          ELSE \E existingLike \in found :
                  req' = [req EXCEPT ![r] =
                             [Goto(q, VoteBranch(existingLike, q.arg.isLike))
                                 EXCEPT !.loc.likeId = existingLike._id]]
    /\ UNCHANGED <<users, contents, follows, comments, likes, uploads, session,
                   nextCommentId, nextLikeId, ops, overlap, script, clock, zone, faults, ui>>

\* likesCollection.deleteOne({ _id: existingLike._id })
VoteRemove(r) ==
    /\ At(r, "vote_remove")
    /\ LET q == req[r]
       IN /\ likes' = {l \in likes : l._id # q.loc.likeId}
          /\ req' = [req EXCEPT ![r] =
                        Reply(q, RespAction(200, IF q.arg.isLike THEN "Like removed."
                                                 ELSE "Dislike removed.", "removed"))]
    /\ UNCHANGED <<users, contents, follows, comments, uploads, session,
                   nextCommentId, nextLikeId, ops, overlap, script, clock, zone, faults, ui>>

\* likesCollection.updateOne({ _id: existingLike._id }, { $set: { isLike } })
VoteUpdate(r) ==
    /\ At(r, "vote_update")
    /\ LET q == req[r]
       IN /\ likes' = {IF l._id = q.loc.likeId THEN [l EXCEPT !.isLike = q.arg.isLike] ELSE l
                          : l \in likes}
          /\ req' = [req EXCEPT ![r] =
                        Reply(q, RespAction(200, IF q.arg.isLike THEN "Changed to like."
                                                 ELSE "Changed to dislike.", "updated"))]
    /\ UNCHANGED <<users, contents, follows, comments, uploads, session,
                   nextCommentId, nextLikeId, ops, overlap, script, clock, zone, faults, ui>>

\* likesCollection.insertOne(likeRecord)
VoteInsert(r) ==
    /\ At(r, "vote_insert")
    /\ LET q == req[r]
           likeRecord == LikeDoc(nextLikeId, q.arg.postId, q.sess.username,
                                 q.sess.userId, q.arg.isLike)
       IN IF LikesIndexAccepts(likes, likeRecord)
          THEN /\ likes' = likes \cup {likeRecord}
               /\ nextLikeId' = nextLikeId + 1
               /\ req' = [req EXCEPT ![r] =
                             Reply(q, RespAction(201, IF q.arg.isLike THEN "Post liked."
                                                      ELSE "Post disliked.", "created"))]
          ELSE /\ likes' = likes
               /\ nextLikeId' = nextLikeId
               /\ req' = [req EXCEPT ![r] =
                             Reply(q, Resp(500, "Internal server error while liking post."))]
    /\ UNCHANGED <<users, contents, follows, comments, uploads, session, nextCommentId,
                   ops, overlap, script, clock, zone, faults, ui>>

(* ---------------------------- GET /contents --------------------------- *)

\* $options: 'i'
Lower(c) ==
    CASE c = "H" -> "h"
      [] c = "P" -> "p"
      [] c = "S" -> "s"
      [] c = "Y" -> "y"
      [] OTHER -> c

LowerSeq(t) == [i \in 1..Len(t) |-> Lower(t[i])]

\* the pattern compiles: of the input alphabet only '(' is left open
RegexCompiles(pattern) == \A k \in 1..Len(pattern) : pattern[k] # "("

\* { $regex: pattern, $options: 'i' }: the pattern, used as written, matches
\* somewhere in the text; '.' in a pattern stands for any character
RegexFinds(pattern, text) ==
    \E i \in 0..(Len(text) - Len(pattern)) :
        \A k \in 1..Len(pattern) :
            pattern[k] = "." \/ Lower(pattern[k]) = Lower(text[i + k])

\* { $regex: `^${escapedLanguage}$`, $options: 'i' }
LanguageIs(filter, language) == LowerSeq(filter) = LowerSeq(language)

\* the query is matched against the title only
Selects_TitleOnly(searchQuery, languageFilter, c) ==
    searchQuery # <<>> => RegexFinds(searchQuery, Chars(c.title))

\* mongoQuery applied to one document
Selects(searchQuery, languageFilter, c) ==
    /\ searchQuery # <<>> =>
           \/ RegexFinds(searchQuery, Chars(c.title))
           \/ RegexFinds(searchQuery, Chars(c.description))
           \/ RegexFinds(searchQuery, Chars(c.programmingLanguage))
    /\ languageFilter # <<>> => LanguageIs(languageFilter, Chars(c.programmingLanguage))

SearchInputs ==
    {[NoArg EXCEPT !.q = x[1], !.language = x[2]] :
        x \in {<<"", "">>, <<"python", "">>, <<"PY", "Python">>, <<" py ", "java">>,
               <<".", "">>, <<"(", "">>}}

Search(r) ==
    \E a \in SearchInputs :
        /\ Begin(r, "search", a)
        /\ req' = [req EXCEPT ![r] = Goto(Arrived(r, "search", a), "search_find")]
        /\ UNCHANGED <<users, contents, follows, comments, likes, uploads, session,
                       nextCommentId, nextLikeId>>

\* contentsCollection.find(mongoQuery).sort({ createdAt: -1 }).toArray()
SearchFind(r) ==
    /\ At(r, "search_find")
    /\ LET q == req[r]
           searchQuery == Trim(Chars(q.arg.q))
           languageFilter == Trim(Chars(q.arg.language))
           found == NewestFirst({c \in contents : Selects(searchQuery, languageFilter, c)})
       IN req' = [req EXCEPT ![r] =
                     IF ~RegexCompiles(searchQuery)
                     THEN Reply(q, Resp(500, "Internal server error during content search."))
                     ELSE Reply(q, RespList(200, "Content search completed successfully.",
                                            Len(found), Ids(found)))]
    /\ UNCHANGED <<users, contents, follows, comments, likes, uploads, session,
                   nextCommentId, nextLikeId, ops, overlap, script, clock, zone, faults, ui>>

(* ---------------------- GET /users/:username/posts -------------------- *)

\* Math.ceil(totalCount / limit)
CeilDiv(a, b) == (a + b - 1) \div b

PostsInputs ==
    {[NoArg EXCEPT !.username = "alice", !.page = x[1], !.limit = x[2]] :
        x \in {<<0, 0>>, <<1, 1>>, <<2, 1>>, <<1, 2>>, <<2, 2>>, <<3, 2>>}}
    \cup {[NoArg EXCEPT !.username = "carol"]}

ListPosts(r) ==
    \E a \in PostsInputs :
        /\ Begin(r, "posts", a)
        /\ req' = [req EXCEPT ![r] = Goto(Arrived(r, "posts", a), "posts_findUser")]
        /\ UNCHANGED <<users, contents, follows, comments, likes, uploads, session,
                       nextCommentId, nextLikeId>>

\* usersCollection.findOne({ username })
PostsFindUser(r) ==
    /\ At(r, "posts_findUser")
    /\ LET q == req[r]
           user == {u \in users : u.username = q.arg.username}
       IN req' = [req EXCEPT ![r] = IF user = {}
                                     THEN Reply(q, Resp(404, "User not found."))
                                     ELSE Goto(q, "posts_count")]
    /\ UNCHANGED <<users, contents, follows, comments, likes, uploads, session,
                   nextCommentId, nextLikeId, ops, overlap, script, clock, zone, faults, ui>>

\* contentsCollection.countDocuments({ author: username })
PostsCount(r) ==
    /\ At(r, "posts_count")
    /\ LET q == req[r]
           totalCount == Cardinality({c \in contents : c.author = q.arg.username})
       IN req' = [req EXCEPT ![r] = [Goto(q, "posts_find") EXCEPT !.loc.total = totalCount]]
    /\ UNCHANGED <<users, contents, follows, comments, likes, uploads, session,
                   nextCommentId, nextLikeId, ops, overlap, script, clock, zone, faults, ui>>

\* contentsCollection.find({ author }).sort().skip(skip).limit(limit).toArray()
PostsPage(cs, username, page, limit) ==
    SkipLimit(NewestFirst({c \in cs : c.author = username}), (page - 1) * limit, limit)

PostsFind(r) ==
    /\ At(r, "posts_find")
    /\ LET q == req[r]
           page == ParamOr(q.arg.page, 1)
           limit == ParamOr(q.arg.limit, 20)
           posts == PostsPage(contents, q.arg.username, page, limit)
       IN req' = [req EXCEPT ![r] =
                     Reply(q, [RespList(200, "", q.loc.total, Ids(posts))
                                  EXCEPT !.username = q.arg.username,
                                         !.totalPages = CeilDiv(q.loc.total, limit)])]
    /\ UNCHANGED <<users, contents, follows, comments, likes, uploads, session,
                   nextCommentId, nextLikeId, ops, overlap, script, clock, zone, faults, ui>>

(* ---------------------- GET /users/:username/stats -------------------- *)

RECURSIVE CountDocuments(_, _)
\* the number of documents of the follows collection among those of hit
CountDocuments(fs, hit) ==
    IF hit = {} THEN 0
    ELSE LET f == CHOOSE x \in hit : TRUE
         IN CopiesIn(f, fs) + CountDocuments(fs, hit \ {f})

\* the followers count is taken from the wrong side of the edge
CountFollowers_Following(fs, username) ==
    CountDocuments(fs, {f \in BagToSet(fs) : f.follower = username})

\* followsCollection.countDocuments({ following: username })
CountFollowers(fs, username) ==
    CountDocuments(fs, {f \in BagToSet(fs) : f.following = username})

\* followsCollection.countDocuments({ follower: username })
CountFollowing(fs, username) ==
    CountDocuments(fs, {f \in BagToSet(fs) : f.follower = username})

StatsInputs == {[NoArg EXCEPT !.username = u] : u \in Usernames \cup {"carol"}}

Stats(r) ==
    \E a \in StatsInputs :
        /\ Begin(r, "stats", a)
        /\ req' = [req EXCEPT ![r] = Goto(Arrived(r, "stats", a), "stats_findUser")]
        /\ UNCHANGED <<users, contents, follows, comments, likes, uploads, session,
                       nextCommentId, nextLikeId>>

\* usersCollection.findOne({ username })
StatsFindUser(r) ==
    /\ At(r, "stats_findUser")
    /\ LET q == req[r]
           user == {u \in users : u.username = q.arg.username}
       IN req' = [req EXCEPT ![r] = IF user = {}
                                     THEN Reply(q, Resp(404, "User not found."))
                                     ELSE Goto(q, "stats_posts")]
    /\ UNCHANGED <<users, contents, follows, comments, likes, uploads, session,
                   nextCommentId, nextLikeId, ops, overlap, script, clock, zone, faults, ui>>

\* contentsCollection.countDocuments({ author: username })
StatsPosts(r) ==
    /\ At(r, "stats_posts")
    /\ LET q == req[r]
           postsCount == Cardinality({c \in contents : c.author = q.arg.username})
       IN req' = [req EXCEPT ![r] = [Goto(q, "stats_followers") EXCEPT !.loc.posts = postsCount]]
    /\ UNCHANGED <<users, contents, follows, comments, likes, uploads, session,
                   nextCommentId, nextLikeId, ops, overlap, script, clock, zone, faults, ui>>

\* followsCollection.countDocuments({ following: username })
StatsFollowers(r) ==
    /\ At(r, "stats_followers")
    /\ LET q == req[r]
           followersCount == CountFollowers(follows, q.arg.username)
       IN req' = [req EXCEPT ![r] =
                     [Goto(q, "stats_following") EXCEPT !.loc.followers = followersCount]]
    /\ UNCHANGED <<users, contents, follows, comments, likes, uploads, session,
                   nextCommentId, nextLikeId, ops, overlap, script, clock, zone, faults, ui>>

\* followsCollection.countDocuments({ follower: username })
StatsFollowing(r) ==
    /\ At(r, "stats_following")
    /\ LET q == req[r]
           followingCount == CountFollowing(follows, q.arg.username)
       IN req' = [req EXCEPT ![r] =
                     Reply(q, [Resp(200, "") EXCEPT !.username = q.arg.username,
                                                    !.posts = q.loc.posts,
                                                    !.followers = q.loc.followers,
                                                    !.following = followingCount])]
    /\ UNCHANGED <<users, contents, follows, comments, likes, uploads, session,
                   nextCommentId, nextLikeId, ops, overlap, script, clock, zone, faults, ui>>

(* ----------------------- GET /posts/:postId/likes --------------------- *)

LikesInputs == {[NoArg EXCEPT !.postId = p] : p \in {1, UnknownPost}}

VoteCounts(r) ==
    \E a \in LikesInputs :
        /\ Begin(r, "likes", a)
        /\ req' = [req EXCEPT ![r] = Goto(Arrived(r, "likes", a), "likes_find")]
        /\ UNCHANGED <<users, contents, follows, comments, likes, uploads, session,
                       nextCommentId, nextLikeId>>

\* the vote of whoever voted is reported as the viewer's
ViewerVote_Anyone(found, username) ==
    IF found = {} THEN {""}
    ELSE {IF l.isLike THEN "like" ELSE "dislike" : l \in found}

\* likes.find(l => l.user === req.session.username): "" stands for null
ViewerVote(found, username) ==
    LET mine == {l \in found : l.user = username}
    IN IF username = "" \/ mine = {} THEN {""}
       ELSE {IF l.isLike THEN "like" ELSE "dislike" : l \in mine}

\* likesCollection.find({ postId }).toArray(), then the counts and the viewer's vote
VoteCountsFind(r) ==
    /\ At(r, "likes_find")
    /\ LET q == req[r]
           found == {l \in likes : l.postId = q.arg.postId}
           likeCount == Cardinality({l \in found : l.isLike})
           dislikeCount == Cardinality({l \in found : ~l.isLike})
       IN \E userVote \in ViewerVote(found, q.sess.username) :
             req' = [req EXCEPT ![r] =
                        Reply(q, [Resp(200, "") EXCEPT !.likeCount = likeCount,
                                                       !.dislikeCount = dislikeCount,
                                                       !.userVote = userVote])]
    /\ UNCHANGED <<users, contents, follows, comments, likes, uploads, session,
                   nextCommentId, nextLikeId, ops, overlap, script, clock, zone, faults, ui>>

(* ------------------------------ GET /users ---------------------------- *)

\* everything a step that only reads leaves as it is
Stored == <<users, contents, follows, comments, likes, uploads, session,
            nextCommentId, nextLikeId>>
Rest == <<ops, overlap, script, clock, zone, faults, ui>>

\* the projection is ignored
Project_Whole(doc, keep) == doc

\* .project({ f: 1, ... }): the fields named that the document has
Project(doc, keep) == [f \in keep \cap DOMAIN doc |-> doc[f]]

\* { projection: { f: 0 } }: every field but those named
Exclude(doc, drop) == [f \in DOMAIN doc \ drop |-> doc[f]]

UserSearchInputs == {[NoArg EXCEPT !.q = x] : x \in {"", "alice", "bob", "."}}

UserSearch(r) ==
    \E a \in UserSearchInputs :
        /\ Begin(r, "users", a)
        /\ req' = [req EXCEPT ![r] = Goto(Arrived(r, "users", a), "users_find")]
        /\ UNCHANGED Stored

\* usersCollection.find({ username: { $regex, $options: 'i' } }).project(...)
UserSearchFind(r) ==
    /\ At(r, "users_find")
    /\ LET q == req[r]
           searchQuery == Chars(q.arg.q)
           found == {Project(u, {"username", "email", "_id"}) :
                        u \in {v \in users : RegexFinds(searchQuery, Chars(v.username))}}
       IN req' = [req EXCEPT ![r] =
                     Reply(q, [Resp(200, "User search completed successfully.")
                                  EXCEPT !.totalCount = Cardinality(found),
                                         !.users = found])]
    /\ UNCHANGED <<Stored, Rest>>

(* ------------- GET /users/:username/followers, /following ------------- *)

PeopleInputs == {[NoArg EXCEPT !.username = u] : u \in Usernames \cup {"carol"}}

Followers(r) ==
    \E a \in PeopleInputs :
        /\ Begin(r, "followers", a)
        /\ req' = [req EXCEPT ![r] = Goto(Arrived(r, "followers", a), "people_findUser")]
        /\ UNCHANGED Stored

Following(r) ==
    \E a \in PeopleInputs :
        /\ Begin(r, "following", a)
        /\ req' = [req EXCEPT ![r] = Goto(Arrived(r, "following", a), "people_findUser")]
        /\ UNCHANGED Stored

\* usersCollection.findOne({ username })
PeopleFindUser(r) ==
    /\ At(r, "people_findUser")
    /\ LET q == req[r]
           user == {u \in users : u.username = q.arg.username}
       IN req' = [req EXCEPT ![r] = IF user = {}
                                     THEN Reply(q, Resp(404, "User not found."))
                                     ELSE Goto(q, "people_find")]
    /\ UNCHANGED <<Stored, Rest>>

\* followsCollection.find({ following: username }) mapped to f.follower, or
\* followsCollection.find({ follower: username }) mapped to f.following
PeopleFind(r) ==
    /\ At(r, "people_find")
    /\ LET q == req[r]
           usernames == IF q.kind = "followers"
                        THEN {f.follower : f \in {g \in BagToSet(follows) :
                                                     g.following = q.arg.username}}
                        ELSE FollowedBy(follows, q.arg.username)
       IN req' = [req EXCEPT ![r] = [Goto(q, "people_details") EXCEPT !.loc.followed = usernames]]
    /\ UNCHANGED <<Stored, Rest>>

\* usersCollection.find({ username: { $in } }).project({ username, email,
\* profileImage, _id })
PeopleDetails(r) ==
    /\ At(r, "people_details")
    /\ LET q == req[r]
           details == {Project(u, {"username", "email", "profileImage", "_id"}) :
                          u \in {v \in users : v.username \in q.loc.followed}}
       IN req' = [req EXCEPT ![r] =
                     Reply(q, [Resp(200, "") EXCEPT !.username = q.arg.username,
                                                    !.totalCount = Cardinality(details),
                                                    !.users = details])]
    /\ UNCHANGED <<Stored, Rest>>

(* --------------------- GET /users/:username/profile ------------------- *)

Profile(r) ==
    \E a \in PeopleInputs :
        /\ Begin(r, "profile", a)
        /\ req' = [req EXCEPT ![r] = Goto(Arrived(r, "profile", a), "profile_findUser")]
        /\ UNCHANGED Stored

\* usersCollection.findOne({ username }, { projection: { password: 0 } })
ProfileFindUser(r) ==
    /\ At(r, "profile_findUser")
    /\ LET q == req[r]
           user == {Exclude(u, {"password"}) : u \in {v \in users : v.username = q.arg.username}}
       IN req' = [req EXCEPT ![r] = IF user = {}
                                     THEN Reply(q, Resp(404, "User not found."))
                                     ELSE [Goto(q, "profile_posts") EXCEPT !.loc.user = user]]
    /\ UNCHANGED <<Stored, Rest>>

\* contentsCollection.countDocuments({ author: username })
ProfilePosts(r) ==
    /\ At(r, "profile_posts")
    /\ LET q == req[r]
           postsCount == Cardinality({c \in contents : c.author = q.arg.username})
       IN req' = [req EXCEPT ![r] = [Goto(q, "profile_followers") EXCEPT !.loc.posts = postsCount]]
    /\ UNCHANGED <<Stored, Rest>>

\* followsCollection.countDocuments({ following: username })
ProfileFollowers(r) ==
    /\ At(r, "profile_followers")
    /\ LET q == req[r]
           followersCount == CountFollowers(follows, q.arg.username)
       IN req' = [req EXCEPT ![r] =
                     [Goto(q, "profile_following") EXCEPT !.loc.followers = followersCount]]
    /\ UNCHANGED <<Stored, Rest>>

\* res.json({ profile: { username, email, profileImage, stats, isFollowing } })
ProfileReply(q, isFollowing) ==
    LET user == CHOOSE u \in q.loc.user : TRUE
    IN [Resp(200, "") EXCEPT !.username = user.username,
                             !.posts = q.loc.posts,
                             !.followers = q.loc.followers,
                             !.following = q.loc.following,
                             !.profile = [username |-> user.username,
                                          email |-> user.email,
                                          profileImage |-> Field(user, "profileImage"),
                                          isFollowing |-> isFollowing]]

\* followsCollection.countDocuments({ follower: username }); the relation is
\* looked up only for a logged-in viewer of somebody else's profile
ProfileFollowing(r) ==
    /\ At(r, "profile_following")
    /\ LET q == [req[r] EXCEPT !.loc.following = CountFollowing(follows, req[r].arg.username)]
       IN req' = [req EXCEPT ![r] =
                     IF q.sess.username # "" /\ q.sess.username # q.arg.username
                     THEN Goto(q, "profile_relation")
                     ELSE Reply(q, ProfileReply(q, FALSE))]
    /\ UNCHANGED <<Stored, Rest>>

\* followsCollection.findOne({ follower: session user, following: username })
ProfileRelation(r) ==
    /\ At(r, "profile_relation")
    /\ LET q == req[r]
           followRelation == FindFollow(follows, q.sess.username, q.arg.username)
       IN req' = [req EXCEPT ![r] = Reply(q, ProfileReply(q, followRelation))]
    /\ UNCHANGED <<Stored, Rest>>

(* --------------------------- specifications --------------------------- *)

Start(r) ==
    \/ Register(r)
    \/ Login(r)
    \/ LoginStatus(r)
    \/ Logout(r)
    \/ CreateContent(r)
    \/ Follow(r)
    \/ Unfollow(r)
    \/ Feed(r)
    \/ UploadPicture(r)
    \/ AddComment(r)
    \/ DeleteComment(r)
    \/ Vote(r)

Step(r) ==
    \/ RegisterFind(r)
    \/ RegisterInsert(r)
    \/ LoginFind(r)
    \/ LoginCompare(r)
    \/ ContentInsert(r)
    \/ FollowFindUser(r)
    \/ FollowFindEdge(r)
    \/ FollowInsert(r)
    \/ UnfollowDelete(r)
    \/ FeedFollowing(r)
    \/ FeedCount(r)
    \/ FeedFind(r)
    \/ PictureUpdate(r)
    \/ CommentFindPost(r)
    \/ CommentInsert(r)
    \/ DeleteFind(r)
    \/ DeleteDelete(r)
    \/ VoteFindPost(r)
    \/ VoteFindLike(r)
    \/ VoteRemove(r)
    \/ VoteUpdate(r)
    \/ VoteInsert(r)
    \/ Release(r)

Next == (\E r \in Slots : Start(r) \/ Step(r)) \/ Expire

\* requests to one route overlap in every order
Spec == Init /\ [][Next]_vars

\* one request at a time: a request is issued only after the previous response
SeqSpec == SeqInit /\ [][Next]_vars

(* ------------------------ failing database calls ---------------------- *)

\* number of calls (of the database, or of fetch in the browser) that fail
\* in one run
MaxFaults == 1

\* the handler is waiting for a database call (bcrypt.compare is none)
DbCall(pc) == pc \notin {"idle", "done", "login_compare"}

\* the message of the catch block of each handler
CatchMessage(kind) ==
    CASE kind = "register" -> "Internal server error during registration."
      [] kind = "users" -> "Internal server error during user search."
      [] kind = "login" -> "Internal server error during login."
      [] kind = "content" -> "Internal server error during content creation."
      [] kind = "search" -> "Internal server error during content search."
      [] kind = "follow" -> "Internal server error during follow operation."
      [] kind = "unfollow" -> "Internal server error during unfollow operation."
      [] kind = "feed" -> "Internal server error during feed retrieval."
      [] kind = "stats" -> "Internal server error during stats retrieval."
      [] kind = "followers" -> "Internal server error during followers retrieval."
      [] kind = "following" -> "Internal server error during following retrieval."
      [] kind = "posts" -> "Internal server error during posts retrieval."
      [] kind = "profile" -> "Internal server error during profile retrieval."
      [] kind = "picture" -> "Internal server error during profile picture upload."
      [] kind = "comment" -> "Internal server error while adding comment."
      [] kind = "deleteComment" -> "Internal server error while deleting comment."
      [] kind = "vote" -> "Internal server error while liking post."
      [] kind = "likes" -> "Internal server error while retrieving likes."
      [] OTHER -> ""

\* the rejection is passed on and answered by the global error handler
CatchReply_Rethrown(kind) == Resp(0, "")

\* catch (error) { res.status(500).json({ success: false, message }) }
CatchReply(kind) == Resp(500, CatchMessage(kind))

\* the database call that r awaits rejects, and the handler's catch block runs
Caught(r) ==
    /\ DbCall(req[r].pc)
    /\ faults < MaxFaults
    /\ faults' = faults + 1
    /\ req' = [req EXCEPT ![r] = Reply(req[r], CatchReply(req[r].kind))]
    /\ UNCHANGED <<Stored, ops, overlap, script, clock, zone, ui>>

ReadStart(r) ==
    \/ Search(r)
    \/ ListPosts(r)
    \/ Stats(r)
    \/ VoteCounts(r)
    \/ UserSearch(r)
    \/ Followers(r)
    \/ Following(r)
    \/ Profile(r)

ReadStep(r) ==
    \/ SearchFind(r)
    \/ PostsFindUser(r)
    \/ PostsCount(r)
    \/ PostsFind(r)
    \/ StatsFindUser(r)
    \/ StatsPosts(r)
    \/ StatsFollowers(r)
    \/ StatsFollowing(r)
    \/ VoteCountsFind(r)
    \/ UserSearchFind(r)
    \/ PeopleFindUser(r)
    \/ PeopleFind(r)
    \/ PeopleDetails(r)
    \/ ProfileFindUser(r)
    \/ ProfilePosts(r)
    \/ ProfileFollowers(r)
    \/ ProfileFollowing(r)
    \/ ProfileRelation(r)

FaultNext ==
    \/ \E r \in Slots : Start(r) \/ Step(r) \/ ReadStart(r) \/ ReadStep(r) \/ Caught(r)
    \/ Expire

\* every route, one request at a time, on a database whose calls may fail
FaultSpec == SeqInit /\ [][FaultNext]_vars

\* a visitor who reads as well as writes, one request at a time, on a
\* database that holds the two accounts
BrowseInit ==
    /\ users = SeedUsers
    /\ comments = SeedComments
    /\ nextCommentId = 2
    /\ contents \in {SeedContents, UsedContents}
    /\ follows \in {SetToBag(es) : es \in SUBSET {FollowDoc("bob", "alice"),
                                                  FollowDoc("alice", "bob")}}
    /\ \/ likes = {} /\ nextLikeId = 1
       \/ likes = UsedLikes /\ nextLikeId = 3
    /\ uploads = 0
    /\ session = NoSession
    /\ req = [r \in Slots |-> IdleReq]
    /\ ops = 0
    /\ overlap = FALSE
    /\ script = Unscripted
    /\ clock = Today
    /\ zone = 0
    /\ faults = 0
    /\ ui = NoUi

BrowseStart(r) ==
    \/ Login(r)
    \/ CreateContent(r)
    \/ Follow(r)
    \/ Unfollow(r)
    \/ Vote(r)
    \/ Feed(r)
    \/ Search(r)
    \/ ListPosts(r)
    \/ Stats(r)
    \/ VoteCounts(r)

BrowseStep(r) ==
    \/ LoginFind(r)
    \/ LoginCompare(r)
    \/ ContentInsert(r)
    \/ FollowFindUser(r)
    \/ FollowFindEdge(r)
    \/ FollowInsert(r)
    \/ UnfollowDelete(r)
    \/ VoteFindPost(r)
    \/ VoteFindLike(r)
    \/ VoteRemove(r)
    \/ VoteUpdate(r)
    \/ VoteInsert(r)
    \/ FeedFollowing(r)
    \/ FeedCount(r)
    \/ FeedFind(r)
    \/ SearchFind(r)
    \/ PostsFindUser(r)
    \/ PostsCount(r)
    \/ PostsFind(r)
    \/ StatsFindUser(r)
    \/ StatsPosts(r)
    \/ StatsFollowers(r)
    \/ StatsFollowing(r)
    \/ VoteCountsFind(r)
    \/ Release(r)

BrowseNext == \E r \in Slots : BrowseStart(r) \/ BrowseStep(r)

BrowseSpec == BrowseInit /\ [][BrowseNext]_vars

\* the walk through the application that a new visitor makes: alice signs
\* up (twice), logs in, posts and searches; bob signs up, logs in, follows
\* alice (twice) and reads his feed.  Each step pairs the request with the
\* outcome the walk-through states for it.
Walk(secondEmail, file, bobAt) ==
    LET form(u, e) == [NoArg EXCEPT !.username = u, !.email = e, !.phone = GoodPhone,
                                    !.dob = AdultDob, !.password = GoodPassword]
        login(u) == [NoArg EXCEPT !.username = u, !.password = GoodPassword]
        step(kind, arg, outcome) == [request |-> Request(kind, arg), outcome |-> outcome]
        signUpBob == <<step("register", form("bob", "bob@x.com"), "registered")>>
        alice == <<step("register", form("alice", "alice@x.com"), "registered"),
                   step("register", form("alice", secondEmail), "conflict")>>
        posting == <<step("login", login("alice"), "session"),
                     step("content", [NoArg EXCEPT !.title = "Hi", !.code = "print(1)",
                                                   !.language = "python", !.file = file],
                          "posted"),
                     step("search", [NoArg EXCEPT !.q = "python"], "found")>>
        following == <<step("login", login("bob"), "session"),
                       step("follow", [NoArg EXCEPT !.username = "alice"], "followed"),
                       step("follow", [NoArg EXCEPT !.username = "alice"], "conflict"),
                       step("feed", NoArg, "found")>>
    IN CASE bobAt = 0 -> signUpBob \o alice \o posting \o following
         [] bobAt = 1 -> alice \o signUpBob \o posting \o following
         [] OTHER -> alice \o posting \o signUpBob \o following

Walks ==
    {Walk(e, f, b) : e \in {"alice@x.com", "bob@x.com"}, f \in {NoFile, DocFile},
                     b \in 0..2}

Requests(walk) == [i \in 1..Len(walk) |-> walk[i].request]

ScenarioInit ==
    /\ users = {}
    /\ contents = {}
    /\ comments = {}
    /\ nextCommentId = 1
    /\ follows = EmptyBag
    /\ likes = {}
    /\ nextLikeId = 1
    /\ uploads = 0
    /\ session = NoSession
    /\ req = [r \in Slots |-> IdleReq]
    /\ ops = 0
    /\ overlap = FALSE
    /\ script \in {Requests(w) : w \in Walks}
    /\ clock = Today
    /\ zone = 0
    /\ faults = 0
    /\ ui = NoUi

ScenarioStart(r) ==
    \/ Register(r)
    \/ Login(r)
    \/ CreateContent(r)
    \/ Search(r)
    \/ Follow(r)
    \/ Feed(r)

ScenarioStep(r) ==
    \/ RegisterFind(r)
    \/ RegisterInsert(r)
    \/ LoginFind(r)
    \/ LoginCompare(r)
    \/ ContentInsert(r)
    \/ SearchFind(r)
    \/ FollowFindUser(r)
    \/ FollowFindEdge(r)
    \/ FollowInsert(r)
    \/ FeedFollowing(r)
    \/ FeedCount(r)
    \/ FeedFind(r)
    \/ Release(r)

ScenarioNext == \E r \in Slots : ScenarioStart(r) \/ ScenarioStep(r)

\* the browser sends the requests of one walk, each after the previous response
ScenarioSpec == ScenarioInit /\ [][ScenarioNext]_vars

\* server clocks: an ordinary day, a leap day, and the days around the
\* turn of a month and of a year
Dates ==
    {Today, [y |-> 2028, m |-> 2, d |-> 29], [y |-> 2026, m |-> 3, d |-> 1],
     [y |-> 2026, m |-> 3, d |-> 31], [y |-> 2026, m |-> 12, d |-> 31],
     [y |-> 2027, m |-> 1, d |-> 1]}

\* server zones, in hours ahead of UTC: New York, UTC, Dubai
Zones == {0 - 5, 0, 4}

\* the same day of the year n years earlier (28 February for a 29 February
\* that the earlier year does not have)
YearsBefore(date, n) ==
    [y |-> date.y - n, m |-> date.m,
     d |-> IF date.d > DaysIn(date.y - n, date.m)
           THEN DaysIn(date.y - n, date.m) ELSE date.d]

\* forms whose date of birth lies on either side of the tenth birthday
BoundaryForms(today) ==
    {[NoArg EXCEPT !.username = "alice", !.email = "alice@x.com", !.phone = GoodPhone,
                   !.dob = dob, !.password = GoodPassword] :
        dob \in {YearsBefore(today, 10), NextDay(YearsBefore(today, 10)),
                 PrevDay(YearsBefore(today, 10))}}

\* one registration form is submitted to a server whose clock and zone are
\* any of the above
SignUpInit ==
    /\ \/ users = {}
       \/ users = SeedUsers
    /\ contents = {}
    /\ comments = {}
    /\ nextCommentId = 1
    /\ follows = EmptyBag
    /\ likes = {}
    /\ nextLikeId = 1
    /\ uploads = 0
    /\ session = NoSession
    /\ req = [r \in Slots |-> IdleReq]
    /\ ops = 0
    /\ overlap = FALSE
    /\ clock \in Dates
    /\ zone \in Zones
    /\ faults = 0
    /\ ui = NoUi
    /\ script \in {<<Request("register", a)>> : a \in RegisterInputs \cup BoundaryForms(clock)}

SignUpNext ==
    \E r \in Slots : Register(r) \/ RegisterFind(r) \/ RegisterInsert(r) \/ Release(r)

SignUpSpec == SignUpInit /\ [][SignUpNext]_vars

\* a date-of-birth string that is no date, such as "2016-13-01" or "abc"
InvalidDob == [y |-> 2016, m |-> 13, d |-> 1]

\* dates of birth of every sort: no date, in the future, today, around the
\* tenth birthday, and long ago
DobForms(today) ==
    {[NoArg EXCEPT !.username = "alice", !.email = "alice@x.com", !.phone = GoodPhone,
                   !.dob = dob, !.password = GoodPassword] :
        dob \in {InvalidDob, NextDay(today), YearsBefore(today, 0 - 1), today,
                 YearsBefore(today, 10), NextDay(YearsBefore(today, 10)),
                 PrevDay(YearsBefore(today, 10)), AdultDob, ChildDob}}

\* one registration form, which the browser would or would not have let
\* through, reaches a server whose clock and zone are the browser's
DobInit ==
    /\ \/ users = {}
       \/ users = SeedUsers
    /\ contents = {}
    /\ comments = {}
    /\ nextCommentId = 1
    /\ follows = EmptyBag
    /\ likes = {}
    /\ nextLikeId = 1
    /\ uploads = 0
    /\ session = NoSession
    /\ req = [r \in Slots |-> IdleReq]
    /\ ops = 0
    /\ overlap = FALSE
    /\ clock \in Dates
    /\ zone \in Zones
    /\ faults = 0
    /\ ui = NoUi
    /\ script \in {<<Request("register", a)>> : a \in DobForms(clock)}

DobSpec == DobInit /\ [][SignUpNext]_vars

(* ------------------ the browser: profile.js and blog.js ---------------- *)

\* number of clicks of the user in one run
MaxClicks == 3

\* showPage and loadProfile are not called deeper than this
MaxDepth == 2 * MaxClicks + 1

\* an async call in progress, suspended at the await named by pc
Task(kind, pc, username, depth) ==
    [kind |-> kind, pc |-> pc, username |-> username, loggedInUser |-> "",
     data |-> NoData, depth |-> depth]

Remove(tasks, i) == SubSeq(tasks, 1, i - 1) \o SubSeq(tasks, i + 1, Len(tasks))

Deeper(u, d) == IF d > u.depth THEN d ELSE u.depth

\* authManager.getCurrentUser(): the username of GET /login, null ("") when
\* nobody is logged in or the fetch fails
getCurrentUser(ok) == IF ok THEN session.username ELSE ""

\* a fetch succeeds (ok) or fails
Fetch(ok) ==
    /\ ok \/ faults < MaxFaults
    /\ faults' = IF ok THEN faults ELSE faults + 1

\* GET /users/:username/profile as the page sees it: success and isFollowing
ProfileAnswer(us, fs, sess, username) ==
    IF \A u \in us : u.username # username THEN NoData
    ELSE [success |-> TRUE,
          isFollowing |-> /\ sess.username # ""
                          /\ sess.username # username
                          /\ FindFollow(fs, sess.username, username)]

\* POST /follow taken at one instant: the request is accepted
FollowAccepted(us, fs, sess, username) ==
    /\ LoggedIn(sess)
    /\ username # ""
    /\ ~IsSelfFollow(username, sess)
    /\ \E u \in us : u.username = username
    /\ ~FindFollow(fs, sess.username, username)

\* DELETE /follow taken at one instant: the request is accepted
UnfollowAccepted(fs, sess, username) ==
    /\ LoggedIn(sess)
    /\ username # ""
    /\ BagIn(FollowDoc(sess.username, username), fs)

\* ProfileManager.updateFollowButton
updateFollowButton(button, profileUsername, loggedInUser, isFollowing) ==
    IF loggedInUser = "" \/ profileUsername = loggedInUser
    THEN [button EXCEPT !.hidden = TRUE]
    ELSE [hidden |-> FALSE, following |-> isFollowing]

\* the page is shown again whatever page is on display
ShowsProfilePage_Always(currentPage) == TRUE

\* window.blogManager.currentPage !== 'profile'
ShowsProfilePage(currentPage) == currentPage # "profile"

\* the guard and the first statement of loadProfile(username), called from
\* the call i that then awaits it (and has nothing left to do after it)
AwaitLoadProfile(u, i, username) ==
    IF u.isLoadingProfile
    THEN [u EXCEPT !.tasks = Remove(@, i)]
    ELSE [u EXCEPT !.isLoadingProfile = TRUE,
                   !.tasks[i] = Task("loadProfile", "lp_user", username, u.tasks[i].depth + 1),
                   !.depth = Deeper(u, u.tasks[i].depth + 1)]

\* what the browser part leaves as it is
Served == <<users, contents, comments, likes, uploads, session, nextCommentId,
            nextLikeId, req, ops, overlap, script, clock, zone>>

\* a click on a navigation link: blogManager.showPage(page)
ClickNav ==
    \E page \in {"home", "profile"} :
        /\ ui.clicks < MaxClicks
        /\ ui' = [ui EXCEPT !.clicks = @ + 1,
                            !.toggled = "",
                            !.page = page,
                            !.tasks = IF page = "profile"
                                      THEN Append(@, Task("showPage", "sp_user", "", 0))
                                      ELSE @]
        /\ UNCHANGED <<Served, follows, faults>>

\* a click on a user card or a search result: profileManager.loadProfile(username)
ClickUserCard ==
    \E username \in Usernames \cup {"carol"} :
        /\ ui.clicks < MaxClicks
        /\ ui' = IF ui.isLoadingProfile
                 THEN [ui EXCEPT !.clicks = @ + 1, !.toggled = ""]
                 ELSE [ui EXCEPT !.clicks = @ + 1,
                                 !.toggled = "",
                                 !.isLoadingProfile = TRUE,
                                 !.tasks = Append(@, Task("loadProfile", "lp_user", username, 0))]
        /\ UNCHANGED <<Served, follows, faults>>

\* a click on the follow button of the profile on display: handleFollowToggle()
ClickFollow ==
    /\ ui.clicks < MaxClicks
    /\ ui.page = "profile"
    /\ ~ui.button.hidden
    /\ ui' = [ui EXCEPT !.clicks = @ + 1,
                        !.toggled = "",
                        !.tasks = Append(@, Task("toggle", "tg_user", "", 0))]
    /\ UNCHANGED <<Served, follows, faults>>

AtTask(i, pc) == i \in 1..Len(ui.tasks) /\ ui.tasks[i].pc = pc

\* showPage('profile') after getCurrentUser: await loadProfile(user)
SpUser(i) ==
    /\ AtTask(i, "sp_user")
    /\ ui.tasks[i].depth < MaxDepth
    /\ \E ok \in BOOLEAN :
          /\ Fetch(ok)
          /\ ui' = AwaitLoadProfile(ui, i, getCurrentUser(ok))
    /\ UNCHANGED <<Served, follows>>

\* loadProfile after getCurrentUser, up to the fetch of the profile
LpUser(i) ==
    /\ AtTask(i, "lp_user")
    /\ \E ok \in BOOLEAN :
          /\ Fetch(ok)
          /\ LET t == ui.tasks[i]
                 loggedInUser == getCurrentUser(ok)
                 username == IF t.username = "" THEN loggedInUser ELSE t.username
             IN ui' = IF username = ""
                      \* showPage('login'), return, finally
                      THEN [ui EXCEPT !.page = "login",
                                      !.isLoadingProfile = FALSE,
                                      !.tasks = Remove(@, i)]
                      ELSE [ui EXCEPT !.currentProfileUser = username,
                                      !.tasks[i] = [t EXCEPT !.pc = "lp_fetch",
                                                             !.username = username,
                                                             !.loggedInUser = loggedInUser]]
    /\ UNCHANGED <<Served, follows>>

\* the server answers the profile request of loadProfile
LpServed(i) ==
    /\ AtTask(i, "lp_fetch")
    /\ LET t == ui.tasks[i]
       IN ui' = [ui EXCEPT !.tasks[i] =
                   [t EXCEPT !.pc = "lp_response",
                             !.data = ProfileAnswer(users, follows, session, t.username)]]
    /\ UNCHANGED <<Served, follows, faults>>

\* loadProfile once the response is there, up to await this.loadUserPosts()
LpResolved(i) ==
    /\ AtTask(i, "lp_response")
    /\ \E ok \in BOOLEAN :
          /\ Fetch(ok)
          /\ LET t == ui.tasks[i]
             IN ui' = IF ok /\ t.data.success
                      THEN [ui EXCEPT !.button = updateFollowButton(@, t.username, t.loggedInUser,
                                                                    t.data.isFollowing),
                                      !.tasks[i] = [t EXCEPT !.pc = "lp_posts"]]
                      \* alert (in the else branch or in catch), finally
                      ELSE [ui EXCEPT !.isLoadingProfile = FALSE,
                                      !.tasks = Remove(@, i)]
    /\ UNCHANGED <<Served, follows>>

\* loadProfile after loadUserPosts (which catches its own errors): the call
\* of showPage('profile'), not awaited, and finally
LpPosts(i) ==
    /\ AtTask(i, "lp_posts")
    /\ LET t == ui.tasks[i]
       IN IF ShowsProfilePage(ui.page)
          THEN /\ t.depth < MaxDepth
               /\ ui' = [ui EXCEPT !.page = "profile",
                                   !.isLoadingProfile = FALSE,
                                   !.tasks = Append(Remove(@, i),
                                                    Task("showPage", "sp_user", "", t.depth + 1)),
                                   !.depth = Deeper(ui, t.depth + 1)]
          ELSE ui' = [ui EXCEPT !.isLoadingProfile = FALSE,
                                !.tasks = Remove(@, i)]
    /\ UNCHANGED <<Served, follows, faults>>

\* handleFollowToggle after getCurrentUser, up to the follow or unfollow fetch
TgUser(i) ==
    /\ AtTask(i, "tg_user")
    /\ \E ok \in BOOLEAN :
          /\ Fetch(ok)
          /\ LET t == ui.tasks[i]
                 loggedInUser == getCurrentUser(ok)
             IN ui' = IF loggedInUser = ""
                      THEN [ui EXCEPT !.tasks = Remove(@, i)]
                      ELSE [ui EXCEPT !.tasks[i] =
                              [t EXCEPT !.pc = "tg_fetch",
                                        !.username = ui.currentProfileUser,
                                        !.loggedInUser = loggedInUser,
                                        !.data.isFollowing = ui.button.following]]
    /\ UNCHANGED <<Served, follows>>

\* the server answers the DELETE /follow or POST /follow request of the toggle
TgServed(i) ==
    /\ AtTask(i, "tg_fetch")
    /\ LET t == ui.tasks[i]
           doc == FollowDoc(session.username, t.username)
           accepted == IF t.data.isFollowing
                       THEN UnfollowAccepted(follows, session, t.username)
                       ELSE FollowAccepted(users, follows, session, t.username)
       IN /\ follows' = IF ~accepted THEN follows
                        ELSE IF t.data.isFollowing THEN follows (-) Bag1(doc)
                        ELSE follows (+) Bag1(doc)
          /\ ui' = [ui EXCEPT !.tasks[i] = [t EXCEPT !.pc = "tg_response",
                                                     !.data.success = accepted]]
    /\ UNCHANGED <<Served, faults>>

\* handleFollowToggle once the response is there: await
\* this.loadProfile(this.currentProfileUser), unless the fetch has thrown
TgResolved(i) ==
    /\ AtTask(i, "tg_response")
    /\ ui.tasks[i].depth < MaxDepth
    /\ \E ok \in BOOLEAN :
          /\ Fetch(ok)
          /\ LET t == ui.tasks[i]
                 u == [ui EXCEPT !.toggled = IF t.data.success THEN t.username ELSE @]
             IN ui' = IF ok THEN AwaitLoadProfile(u, i, ui.currentProfileUser)
                      ELSE [ui EXCEPT !.tasks = Remove(@, i)]
    /\ UNCHANGED <<Served, follows>>

\* the page has just been loaded by a visitor with or without a session, who
\* may already follow bob
PageInit ==
    /\ users = SeedUsers
    /\ contents = SeedContents
    /\ comments = SeedComments
    /\ nextCommentId = 2
    /\ follows \in {EmptyBag, SetToBag({FollowDoc("alice", "bob")})}
    /\ likes = {}
    /\ nextLikeId = 1
    /\ uploads = 0
    /\ session \in {NoSession, [userId |-> 1, username |-> "alice"]}
    /\ req = [r \in Slots |-> IdleReq]
    /\ ops = 0
    /\ overlap = FALSE
    /\ script = Unscripted
    /\ clock = Today
    /\ zone = 0
    /\ faults = 0
    /\ ui = [NoUi EXCEPT !.page = "home"]

\* the event loop runs one call up to its next await
PageStep ==
    \E i \in 1..Len(ui.tasks) :
        \/ SpUser(i)
        \/ LpUser(i)
        \/ LpServed(i)
        \/ LpResolved(i)
        \/ LpPosts(i)
        \/ TgUser(i)
        \/ TgServed(i)
        \/ TgResolved(i)

PageNext == ClickNav \/ ClickUserCard \/ ClickFollow \/ PageStep

PageSpec == PageInit /\ [][PageNext]_vars

\* every call in progress is resumed: its fetch resolves or rejects
PageLive == PageSpec /\ WF_vars(PageStep)

(* ------------------------- GET read-only routes ------------------------ *)

\* GET /posts/:postId/comments: the comments of the post, newest first
listComments(cs, postId) == Ids(NewestFirst({c \in cs : c.postId = postId}))

(* ------------------------------- claims ------------------------------- *)

\* r's handler ran in this step / sent its response in this step
Moved(r) == req'[r] # req[r]
Finishes(r) == req[r].pc # "done" /\ req'[r].pc = "done"
Done(r, kind) == req[r].pc = "done" /\ req[r].kind = kind

UniqueUsers(us) ==
    \A u, v \in us : u # v => u.username # v.username /\ u.email # v.email

VotesOf(ls, p, u) == {l \in ls : l.postId = p /\ l.user = u}

\* C2: with one request at a time, a vote by a logged-in user on an existing
\* post creates the vote when there is none ('created'), deletes it when the
\* flag is the same ('removed') and flips it when the flag differs ('updated'),
\* and touches no other vote.
C2_VoteMachine ==
    [][\A r \in Slots :
          (req[r].kind = "vote" /\ Finishes(r)
           /\ req[r].pc \in {"vote_insert", "vote_remove", "vote_update"})
          => LET p == req[r].arg.postId
                 u == req[r].sess.username
                 b == req[r].arg.isLike
                 before == VotesOf(likes, p, u)
                 after == VotesOf(likes', p, u)
             IN /\ req'[r].resp.status < 400
                /\ likes' \ after = likes \ before
                /\ before = {} =>
                     /\ req'[r].resp.action = "created"
                     /\ Cardinality(after) = 1
                     /\ \A l \in after : l.isLike = b
                /\ (before # {} /\ \A l \in before : l.isLike = b) =>
                     /\ req'[r].resp.action = "removed"
                     /\ after = {}
                /\ (before # {} /\ \A l \in before : l.isLike # b) =>
                     /\ req'[r].resp.action = "updated"
                     /\ Cardinality(after) = 1
                     /\ \A l \in after : l.isLike = b]_vars

C2_Witness ==
    \E r \in Slots :
        /\ Done(r, "vote")
        /\ req[r].resp.action = "updated"
        /\ req[r].arg.isLike = FALSE
        /\ \E l \in likes : VotesOf(likes, req[r].arg.postId, req[r].sess.username) = {l}
                              /\ l.isLike = FALSE

\* C3: in every interleaving the likes collection holds at most one vote
\* record for each (post, user) pair.
C3_OneVotePerPair ==
    \A l1, l2 \in likes : (l1.postId = l2.postId /\ l1.user = l2.user) => l1 = l2

C3_Witness ==
    \E r \in Slots :
        /\ Done(r, "vote")
        /\ req[r].resp.status = 500
        /\ Cardinality(VotesOf(likes, req[r].arg.postId, req[r].sess.username)) = 1

Edges(fs, a, b) == CopiesIn(FollowDoc(a, b), fs)
Registered(us, name) == \E u \in us : u.username = name

\* C4: with one request at a time, for a logged-in user a and a target b # a:
\* a follow of an unknown b is answered 404 and creates no edge; a follow when
\* the edge exists is answered 400 and leaves exactly one edge; a follow when
\* it does not exist creates it; an unfollow without the edge is answered 404
\* and changes nothing; an unfollow of an existing edge leaves no edge.
C4_FollowUnfollow ==
    [][\A r \in Slots :
          LET a == req[r].sess.username
              b == req[r].arg.username
          IN /\ (req[r].kind = "follow" /\ Finishes(r) /\ LoggedIn(req[r].sess)
                 /\ b # "" /\ b # a)
                  => /\ ~Registered(users, b) =>
                          req'[r].resp.status = 404 /\ follows' = follows
                     /\ (Registered(users, b) /\ Edges(follows, a, b) > 0) =>
                          /\ req'[r].resp.status = 400
                          /\ follows' = follows
                          /\ Edges(follows', a, b) = 1
                     /\ (Registered(users, b) /\ Edges(follows, a, b) = 0) =>
                          /\ req'[r].resp.status = 200
                          /\ Edges(follows', a, b) = 1
             /\ (req[r].kind = "unfollow" /\ Finishes(r) /\ LoggedIn(req[r].sess) /\ b # "")
                  => /\ Edges(follows, a, b) = 0 =>
                          req'[r].resp.status = 404 /\ follows' = follows
                     /\ Edges(follows, a, b) > 0 =>
                          req'[r].resp.status = 200 /\ Edges(follows', a, b) = 0]_vars

C4_Witness ==
    \E r \in Slots :
        /\ Done(r, "follow")
        /\ req[r].resp.status = 400
        /\ req[r].arg.username # req[r].sess.username
        /\ Edges(follows, req[r].sess.username, req[r].arg.username) = 1

\* C5: a follow whose target is the session user's own username is answered
\* 400 at once, and no state holds a follow edge from a user to itself.
C5_NoSelfFollow ==
    /\ \A f \in BagToSet(follows) : f.follower # f.following
    /\ \A r \in Slots :
          (req[r].kind = "follow" /\ LoggedIn(req[r].sess)
           /\ req[r].arg.username = req[r].sess.username)
          => /\ req[r].pc = "done"
             /\ req[r].resp = Resp(400, "You cannot follow yourself.")

C5_Witness ==
    \E r \in Slots :
        /\ Done(r, "follow")
        /\ req[r].resp.message = "You cannot follow yourself."
        /\ BagToSet(follows) # {}

\* C6: in every interleaving of follow requests the follows collection holds
\* at most one edge for each (follower, followee) pair.
C6_OneEdgePerPair ==
    \A f \in BagToSet(follows) : CopiesIn(f, follows) = 1

C6_Witness ==
    \E r \in Slots :
        /\ Done(r, "follow")
        /\ req[r].resp.status = 500
        /\ Edges(follows, req[r].sess.username, req[r].arg.username) = 1

\* the insertOne that r is about to issue is refused by a unique index
LosesAtIndex(r) ==
    LET q == req[r]
    IN \/ /\ q.pc = "register_insert"
          /\ \E u \in users : u.username = q.arg.username \/ u.email = q.arg.email
       \/ /\ q.pc = "follow_insert"
          /\ Edges(follows, q.sess.username, q.arg.username) > 0
       \/ /\ q.pc = "vote_insert"
          /\ VotesOf(likes, q.arg.postId, q.sess.username) # {}

\* C7: a request whose insert loses the race at a unique index (register,
\* follow, vote) is answered with a 400-class 'already exists' response.
C7_RaceLoserAnswered400 ==
    [][\A r \in Slots :
          (LosesAtIndex(r) /\ Moved(r)) => req'[r].resp.status \in 400..499]_vars

GatedKinds == {"content", "follow", "unfollow", "comment", "deleteComment", "vote",
               "picture", "feed"}

\* C8: every session-gated request issued without a logged-in session is
\* answered 401 and changes no record of the five collections.
C8_UnauthenticatedIs401 ==
    [][\A r \in Slots :
          (req[r].pc = "idle" /\ req'[r].pc # "idle" /\ req'[r].kind \in GatedKinds
           /\ ~LoggedIn(req'[r].sess))
          => /\ req'[r].pc = "done"
             /\ req'[r].resp.status = 401
             /\ db' = db]_vars

Range(seq) == {seq[i] : i \in 1..Len(seq)}
PostIds == {c._id : c \in contents} \cup {UnknownPost}

\* C9: a delete by a logged-in user who is not the author is answered 403 and
\* the comment stays listed; a delete by the author is answered 200 and removes
\* the comment; a removed comment is never listed again; and a comment leaves
\* the collection only through a delete request of its author.
C9_CommentDeletion ==
    [][/\ \A r \in Slots :
            LET q == req[r]
                found == {c \in comments : c._id = q.arg.commentId}
            IN /\ (q.pc = "delete_find" /\ Moved(r) /\ found # {}
                   /\ \A c \in found : c.author # q.sess.username)
                    => /\ req'[r].pc = "done"
                       /\ req'[r].resp.status = 403
                       /\ comments' = comments
                       /\ \A c \in found : c._id \in Range(listComments(comments', c.postId))
               /\ (q.pc = "delete_find" /\ Moved(r) /\ found # {}
                   /\ \A c \in found : c.author = q.sess.username)
                    => req'[r].pc = "delete_delete"
               /\ (q.pc = "delete_delete" /\ Moved(r))
                    => /\ req'[r].resp.status = 200
                       /\ \A p \in PostIds : q.arg.commentId \notin Range(listComments(comments', p))
       /\ \A c \in comments \ comments' :
            \E r \in Slots : /\ req[r].pc = "delete_delete"
                             /\ Moved(r)
                             /\ req[r].arg.commentId = c._id
                             /\ req[r].sess.username = c.author
       /\ \A i \in 1..(nextCommentId - 1) :
            (\A c \in comments : c._id # i)
              => \A p \in PostIds : i \notin Range(listComments(comments', p))]_vars

C9_Witness ==
    \E r \in Slots :
        /\ Done(r, "deleteComment")
        /\ req[r].resp.status = 403
        /\ \E c \in comments : /\ c._id = req[r].arg.commentId
                               /\ c.author # req[r].sess.username
                               /\ c._id \in Range(listComments(comments, c.postId))

FailedUnknown(q) ==
    /\ q.kind = "login" /\ q.pc = "done"
    /\ q.arg.username # "" /\ q.arg.password # ""
    /\ q.loc.uid = 0

FailedWrong(q) ==
    /\ q.kind = "login" /\ q.pc = "done"
    /\ q.loc.uid # 0
    /\ ~BcryptCompare(q.arg.password, q.loc.hash)

\* C10: a login with an unregistered username and a login with a registered
\* username and a wrong password get the same response, status 401 with the
\* same message, and neither changes the session.
C10_LoginFailuresAlike ==
    [][/\ \A r1, r2 \in Slots :
            (FailedUnknown(req'[r1]) /\ FailedWrong(req'[r2]))
              => req'[r1].resp = req'[r2].resp
       /\ \A r \in Slots :
            (Finishes(r) /\ (FailedUnknown(req'[r]) \/ FailedWrong(req'[r])))
              => /\ req'[r].resp.status = 401
                 /\ session' = session]_vars

C10_Witness ==
    \E r1, r2 \in Slots :
        /\ FailedUnknown(req[r1])
        /\ FailedWrong(req[r2])
        /\ req[r1].resp = req[r2].resp

\* C11: a session identity appears only when a login succeeds and disappears
\* only at a logout or at expiry; a request that arrives without a session is
\* told loggedIn=false by the login-status query and is answered 401 by every
\* session-gated route; a logout without a session is answered 200 and
\* changes neither the session nor any record.
C11_SessionLifecycle ==
    [][/\ (session' # session /\ LoggedIn(session'))
            => \E r \in Slots : /\ req[r].pc = "login_compare"
                                 /\ Finishes(r)
                                 /\ req'[r].resp.status = 200
                                 /\ session'.username = req[r].arg.username
       /\ (LoggedIn(session) /\ session' # session)
            => \/ \E r \in Slots : req[r].pc = "idle" /\ req'[r].kind = "logout"
               \/ \E r \in Slots : req[r].pc = "login_compare" /\ Finishes(r)
               \/ req' = req
       /\ \A r \in Slots :
            (req[r].pc = "idle" /\ req'[r].pc # "idle")
            => /\ req'[r].kind = "logout"
                    => /\ req'[r].resp.status = 200
                       /\ ~LoggedIn(session')
                       /\ ~LoggedIn(session) => (session' = session /\ db' = db)
               /\ (req'[r].kind = "status" /\ ~LoggedIn(session))
                    => /\ req'[r].resp.status = 200
                       /\ req'[r].resp.loggedIn = FALSE
               /\ (req'[r].kind \in GatedKinds /\ ~LoggedIn(session))
                    => /\ req'[r].pc = "done"
                       /\ req'[r].resp.status = 401]_vars

\* the ids are listed newest first, each once
Descending(ids) == \A i, j \in 1..Len(ids) : i < j => ids[i] > ids[j]

FeedOf(u) == {c \in contents : Edges(follows, u, c.author) > 0}

C13_EmptyFeed ==
    [][\A r \in Slots :
          (At(r, "feed_following") /\ Moved(r)
           /\ \A f \in BagToSet(follows) : f.follower # req[r].sess.username)
          => /\ req'[r].pc = "done"
             /\ req'[r].resp.status = 200
             /\ req'[r].resp.contents = <<>>
             /\ req'[r].resp.totalCount = 0
             /\ req'[r].resp.message
                  = "Your feed is empty. Follow users to see their posts."]_vars

C13_Witness ==
    \E r \in Slots :
        /\ Done(r, "feed")
        /\ LoggedIn(req[r].sess)
        /\ req[r].resp.status = 200
        /\ req[r].resp.contents = <<>>
        /\ req[r].resp.message = "Your feed is empty. Follow users to see their posts."
        /\ contents # {}
        /\ \A f \in BagToSet(follows) : f.follower # req[r].sess.username

\* the Hi post that alice created
HiPosts(cs) == {c \in cs : c.title = "Hi" /\ c.code = "print(1)"
                              /\ c.programmingLanguage = "python" /\ c.author = "alice"}

\* the response and the step of the handler of r meet the stated outcome
Meets(outcome, r) ==
    LET q == req[r]
        resp == req'[r].resp
    IN CASE outcome = "registered" ->
              /\ resp.status = 201
              /\ \E u \in users' \ users : u.username = q.arg.username
         [] outcome = "conflict" ->
              /\ resp.status \in {400, 409}
              /\ db' = db
         [] outcome = "session" ->
              /\ resp.status = 200
              /\ session' = [userId |-> q.loc.uid, username |-> q.arg.username]
              /\ q.loc.uid # 0
         [] outcome = "posted" ->
              /\ resp.status = 201
              /\ resp.contentId # 0
              /\ \E c \in HiPosts(contents') \ contents : c._id = resp.contentId
         [] outcome = "found" ->
              /\ resp.status = 200
              /\ HiPosts(contents) # {}
              /\ \A c \in HiPosts(contents) : c._id \in Range(resp.contents)
         [] outcome = "followed" ->
              /\ resp.status = 200
              /\ Edges(follows', q.sess.username, q.arg.username) = 1
              /\ Edges(follows, q.sess.username, q.arg.username) = 0
         [] OTHER -> FALSE

\* C14: in the walk-through, each request sent after the previous response,
\* every response is the stated one: alice's first registration creates her
\* account and the second is a conflict; her login issues a session; her post
\* is answered 201 with the id of the new post; the search for 'python' lists
\* it; bob's registration and login succeed; his first follow of alice
\* succeeds and the second is a conflict; his feed lists the Hi post.
C14_WalkThrough ==
    [][\A r \in Slots :
          Finishes(r) =>
             \A w \in Walks :
                (/\ ops \in 1..Len(w)
                 /\ SubSeq(Requests(w), ops + 1, Len(w)) = script
                 /\ w[ops].request = Request(req[r].kind, req[r].arg))
                => Meets(w[ops].outcome, r)]_vars

C14_Witness ==
    \E r \in Slots :
        /\ Done(r, "feed")
        /\ script = <<>>
        /\ ops = 10
        /\ req[r].sess.username = "bob"
        /\ HiPosts(contents) # {}
        /\ \A c \in HiPosts(contents) : c._id \in Range(req[r].resp.contents)
        /\ Cardinality(users) = 2
        /\ Edges(follows, "bob", "alice") = 1

\* full years from the date of birth to today, both as calendar dates
AgeOn(dob, today) ==
    today.y - dob.y
      - (IF today.m < dob.m \/ (today.m = dob.m /\ today.d < dob.d) THEN 1 ELSE 0)

\* the form fails one of the stated checks
Rejectable(a, today) ==
    \/ a.username = "" \/ a.email = "" \/ a.phone = "" \/ a.dob = NoDate \/ a.password = ""
    \/ \E i \in 1..Len(Chars(a.username)) : Chars(a.username)[i] = " "
    \/ a.email \in {"alice.x.com"}
    \/ a.phone \in {"12345678"}
    \/ Len(Chars(a.password)) < 6
    \/ AgeOn(a.dob, today) < 10

Unused(a) == \A u \in users : u.username # a.username /\ u.email # a.email

\* C15: a registration whose form misses a field, has whitespace in the
\* username, a malformed email or phone, a password shorter than 6 characters
\* or a date of birth less than 10 years back is answered 400 and creates no
\* user; a form that passes every check, with an unused username and email,
\* creates exactly one user.
C15_RegistrationChecks ==
    [][\A r \in Slots :
          (req'[r].kind = "register" /\ Finishes(r))
          => LET a == req'[r].arg
             IN /\ Rejectable(a, clock) =>
                     /\ req'[r].resp.status = 400
                     /\ users' = users
                     /\ req[r].pc = "idle"
                /\ (~Rejectable(a, clock) /\ Unused(a)) =>
                     /\ req'[r].resp.status = 201
                     /\ Cardinality(users') = Cardinality(users) + 1
                     /\ \E u \in users' \ users : u.username = a.username
                /\ req'[r].resp.status # 201 => users' = users]_vars

\* C16: whatever the server's date, a registration, otherwise valid, with a
\* date of birth exactly 10 years before that date passes the age check, and
\* one with a date of birth one day later is answered 400 'You must be at
\* least 10 years old to register.'
C16_TenthBirthday ==
    [][\A r \in Slots :
          (req[r].pc = "idle" /\ req'[r].kind = "register"
           /\ req'[r].arg \in BoundaryForms(clock))
          => LET dob == req'[r].arg.dob
             IN /\ dob = YearsBefore(clock, 10) => req'[r].pc = "register_find"
                /\ dob = NextDay(YearsBefore(clock, 10)) =>
                     /\ req'[r].pc = "done"
                     /\ req'[r].resp = Resp(400, "You must be at least 10 years old to register.")]_vars

\* the text holds the query as a substring, letter case aside
Contains(query, text) ==
    \E i \in 0..(Len(text) - Len(query)) :
        \A k \in 1..Len(query) : Lower(query[k]) = Lower(text[i + k])

\* the posts a search for (query, filter) is to return
Wanted(query, filter) ==
    {c \in contents :
        /\ query # <<>> => \/ Contains(query, Chars(c.title))
                           \/ Contains(query, Chars(c.description))
                           \/ Contains(query, Chars(c.programmingLanguage))
        /\ filter # <<>> => LowerSeq(Chars(c.programmingLanguage)) = LowerSeq(filter)}

\* C17: a content search is answered with exactly the posts that hold the
\* (trimmed) query, when it is not empty, as a case-insensitive substring of
\* the title, the description or the language, and whose language equals the
\* (trimmed) language filter, when one is given, letter case aside; the
\* posts are listed newest first, and all posts are listed when both are empty.
C17_SearchExact ==
    [][\A r \in Slots :
          (At(r, "search_find") /\ Moved(r))
          => LET query == Trim(Chars(req[r].arg.q))
                 filter == Trim(Chars(req[r].arg.language))
                 listed == req'[r].resp.contents
             IN /\ req'[r].resp.status = 200
                /\ Range(listed) = {c._id : c \in Wanted(query, filter)}
                /\ Descending(listed)
                /\ (query = <<>> /\ filter = <<>>) => Len(listed) = Cardinality(contents)]_vars

\* the id at position i of the author's posts, newest first
Newest(ids, i) == CHOOSE x \in ids : Cardinality({y \in ids : y > x}) = i - 1

RECURSIVE Pages(_, _, _, _)
\* pages 1..n of the author's posts, one after the other
Pages(cs, username, n, limit) ==
    IF n = 0 THEN <<>>
    ELSE Pages(cs, username, n - 1, limit) \o Ids(PostsPage(cs, username, n, limit))

\* C18: with one request at a time, for an existing author, page >= 1 and
\* limit >= 1 the post list holds the posts at positions (page-1)*limit ..
\* page*limit-1 of the author's posts taken newest first, totalCount is the
\* number of the author's posts and totalPages is ceil(totalCount/limit);
\* pages 1..totalPages, one after the other, are every post of the author
\* exactly once.
C18_PostsPaging ==
    [][\A r \in Slots :
          (req[r].kind = "posts" /\ Finishes(r)
           /\ \E u \in users : u.username = req[r].arg.username)
          => LET a == req[r].arg
                 page == IF a.page = 0 THEN 1 ELSE a.page
                 limit == IF a.limit = 0 THEN 20 ELSE a.limit
                 ids == {c._id : c \in {d \in contents : d.author = a.username}}
                 n == Cardinality(ids)
                 first == (page - 1) * limit
                 listed == req'[r].resp.contents
                 totalPages == req'[r].resp.totalPages
             IN /\ req'[r].resp.status = 200
                /\ req'[r].resp.totalCount = n
                /\ totalPages * limit >= n
                /\ totalPages = 0 \/ (totalPages - 1) * limit < n
                /\ Len(listed) = IF n - first > limit THEN limit
                                 ELSE IF n - first > 0 THEN n - first ELSE 0
                /\ \A i \in 1..Len(listed) : listed[i] = Newest(ids, first + i)
                /\ LET all == Pages(contents, a.username, totalPages, limit)
                   IN /\ Len(all) = n
                      /\ Range(all) = ids]_vars

C18_Witness ==
    \E r \in Slots :
        /\ Done(r, "posts")
        /\ req[r].arg.page = 2
        /\ req[r].arg.limit = 2
        /\ req[r].resp.totalCount = 3
        /\ req[r].resp.totalPages = 2
        /\ Len(req[r].resp.contents) = 1
        /\ \E c \in contents : c._id = req[r].resp.contents[1] /\ c.author = req[r].arg.username

\* the edges of the follows collection that satisfy a condition on their ends
EdgesWhere(fs, Cond(_)) ==
    BagCardinality([f \in {g \in BagToSet(fs) : Cond(g)} |-> fs[f]])

RECURSIVE SumOver(_, _)
\* the sum of count[x] over the x of S
SumOver(S, count) ==
    IF S = {} THEN 0
    ELSE LET x == CHOOSE y \in S : TRUE IN count[x] + SumOver(S \ {x}, count)

\* C19: with one request at a time, whatever posts, follows and unfollows came
\* before, the stats of a registered user u report posts = the number of posts
\* of author u, followers = the number of follow edges into u and following =
\* the number of follow edges out of u; the followers counts of all users
\* add up to the same number as their following counts.
C19_StatsCounts ==
    [][/\ \A r \in Slots :
            (req[r].kind = "stats" /\ Finishes(r)
             /\ \E x \in users : x.username = req[r].arg.username)
            => LET u == req[r].arg.username
                   stats == req'[r].resp
               IN /\ stats.status = 200
                  /\ stats.posts = Cardinality({c \in contents : c.author = u})
                  /\ stats.followers = EdgesWhere(follows, LAMBDA f : f.following = u)
                  /\ stats.following = EdgesWhere(follows, LAMBDA f : f.follower = u)
       /\ LET names == {x.username : x \in users'}
              followers == [u \in names |-> CountFollowers(follows', u)]
              following == [u \in names |-> CountFollowing(follows', u)]
          IN /\ SumOver(names, followers) = SumOver(names, following)
             /\ SumOver(names, followers) = BagCardinality(follows')]_vars

C19_Witness ==
    \E r \in Slots :
        /\ Done(r, "stats")
        /\ ops = MaxOps
        /\ req[r].resp.posts > 0
        /\ req[r].resp.followers = 1
        /\ req[r].resp.following = 0
        /\ Edges(follows, "bob", req[r].arg.username) = 1

\* the users whose vote on post p is b
Voters(p, b) ==
    {u \in users : \E l \in likes : l.postId = p /\ l.user = u.username /\ l.isLike = b}

\* C20: the vote counts of a post report likeCount = the number of users
\* whose vote on it is a like and dislikeCount = the number whose vote is a
\* dislike; the two add up to the number of vote records of the post, which
\* is at most the number of users; userVote is the viewer's own vote, and
\* null when the viewer is not logged in or has not voted.
C20_VoteCounts ==
    [][\A r \in Slots :
          (At(r, "likes_find") /\ Moved(r))
          => LET p == req[r].arg.postId
                 viewer == req[r].sess
                 mine == VotesOf(likes, p, viewer.username)
                 counts == req'[r].resp
             IN /\ counts.status = 200
                /\ counts.likeCount = Cardinality(Voters(p, TRUE))
                /\ counts.dislikeCount = Cardinality(Voters(p, FALSE))
                /\ counts.likeCount + counts.dislikeCount
                     = Cardinality({l \in likes : l.postId = p})
                /\ counts.likeCount + counts.dislikeCount <= Cardinality(users)
                /\ (~LoggedIn(viewer) \/ mine = {}) => counts.userVote = ""
                /\ (LoggedIn(viewer) /\ mine # {})
                     => \A l \in mine :
                           counts.userVote = IF l.isLike THEN "like" ELSE "dislike"]_vars

C20_Witness ==
    \E r \in Slots :
        /\ Done(r, "likes")
        /\ ops = MaxOps
        /\ req[r].sess.username = "bob"
        /\ req[r].resp.userVote = "like"
        /\ req[r].resp.likeCount = 2
        /\ req[r].resp.dislikeCount = 0
        /\ Cardinality(users) = 2

\* the post a comment request names is stored
PostExists(cs, id) == \E c \in cs : c._id = id

\* C21: a comment request of a logged-in user with empty or blank text is
\* answered 400, and one that names a post that does not exist is answered
\* 404; neither creates a comment.  Every other one creates exactly one
\* comment, of the session user, on the post named, with the trimmed text.
C21_AddComment ==
    [][/\ \A r \in Slots :
            LET q == req'[r]
                blank == Trim(q.arg.text) = <<>>
            IN (q.kind = "comment" /\ LoggedIn(q.sess) /\ Finishes(r))
               => /\ blank => /\ req'[r].resp.status = 400
                              /\ comments' = comments
                  /\ (~blank /\ ~PostExists(contents, q.arg.postId))
                       => /\ req'[r].resp.status = 404
                          /\ comments' = comments
                  /\ (~blank /\ PostExists(contents, q.arg.postId))
                       => /\ req'[r].resp.status = 201
                          /\ \E c \in comments' \ comments :
                                /\ comments' = comments \cup {c}
                                /\ c.author = q.sess.username
                                /\ c.userId = q.sess.userId
                                /\ c.postId = q.arg.postId
                                /\ c.text = Trim(q.arg.text)
       /\ comments' \ comments # {}
            => \E r \in Slots : req'[r].kind = "comment" /\ Finishes(r)]_vars

\* C22: when a database call of a request fails, that request is answered
\* at once with status 500 and the message of its handler, nothing stored
\* changes, and the request makes no further call (an answered request only
\* leaves).  The server goes on answering: C22_Witness is a request that
\* succeeds after the failure of an earlier one.
C22_DatabaseFailure ==
    [][/\ faults' # faults
            => \E r \in Slots :
                  /\ DbCall(req[r].pc)
                  /\ req'[r].pc = "done"
                  /\ req'[r].resp.status \in 500..599
                  /\ req'[r].resp.message # ""
                  /\ req'[r].resp.message = CatchMessage(req[r].kind)
                  /\ \A s \in Slots \ {r} : req'[s] = req[s]
                  /\ <<users, contents, follows, comments, likes, uploads, session>>'
                       = <<users, contents, follows, comments, likes, uploads, session>>
       /\ \A r \in Slots :
             req[r].pc = "done" => req'[r] \in {req[r], IdleReq}]_vars

C22_Witness ==
    /\ faults > 0
    /\ \E r \in Slots : /\ Done(r, "comment")
                        /\ req[r].resp.status = 201
                        /\ \E c \in comments : c._id = nextCommentId - 1

PeopleKinds == {"users", "followers", "following", "profile"}

\* C23: no response of user search, followers, following or profile holds
\* the password field of a user record: neither the user documents it lists
\* nor its profile object have a field of that name.
C23_NoPasswordInResponses ==
    \A r \in Slots :
        req[r].kind \in PeopleKinds
        => /\ \A d \in req[r].resp.users : "password" \notin DOMAIN d
           /\ "password" \notin DOMAIN req[r].resp.profile

C23_Witness ==
    \E r \in Slots :
        /\ Done(r, "followers")
        /\ req[r].resp.status = 200
        /\ \E d \in req[r].resp.users :
              \E u \in users : /\ u._id = d._id
                               /\ u.username = d.username
                               /\ "password" \in DOMAIN u

\* C24: a delete-comment request that reports success has removed the
\* comment in that step, so of the requests for one comment at most one
\* reports success; a request for a comment that is no longer stored is
\* answered 404.
C24_DeleteReportsRemoval ==
    [][\A r \in Slots :
          LET q == req[r]
              stored == {c \in comments : c._id = q.arg.commentId}
          IN /\ (q.kind = "deleteComment" /\ Finishes(r) /\ req'[r].resp.status = 200)
                  => /\ stored # {}
                     /\ comments' = comments \ stored
             /\ (q.pc = "delete_find" /\ Moved(r) /\ stored = {})
                  => /\ req'[r].resp.status = 404
                     /\ comments' = comments]_vars

\* C25: a create-post request that is answered 401 or 400 changes nothing
\* that persists: no post is inserted and the uploads directory holds no
\* more files than before the request.
C25_RejectedPostLeavesNothing ==
    [][\A r \in Slots :
          (req'[r].kind = "content" /\ Finishes(r) /\ req'[r].resp.status \in {400, 401})
          => /\ contents' = contents
             /\ uploads' = uploads
             /\ <<users, follows, comments, likes>>' = <<users, follows, comments, likes>>]_vars

\* the picture a successful upload has stored for the user of this name
UploadedPicture(name) ==
    {u.profilePicture : u \in {v \in users : v.username = name /\ v.profilePicture # 0}}

\* C26: once a profile-picture upload of a user has succeeded, the profile
\* response for that user and the user's entry in a followers or following
\* list carry the reference of the uploaded picture; the upload changes the
\* record of no other user.
C26_AvatarIsUploadedPicture ==
    [][\A r \in Slots :
          LET q == req'[r]
          IN /\ (q.kind = "profile" /\ Finishes(r) /\ q.resp.status = 200)
                  => \A pic \in UploadedPicture(q.arg.username) :
                        q.resp.profile.profileImage = pic
             /\ (q.kind \in {"followers", "following"} /\ Finishes(r) /\ q.resp.status = 200)
                  => \A d \in q.resp.users :
                        \A pic \in UploadedPicture(d.username) :
                           Field(d, "profileImage") = pic
             /\ (req[r].pc = "picture_update" /\ Moved(r))
                  => \A u \in users : u._id # req[r].sess.userId => u \in users']_vars

AgeMessage == "You must be at least 10 years old to register."

\* C27: whatever the date of birth of a registration form whose other fields
\* are good (a string that is no date and a date in the future included),
\* the server's age check lets the form through exactly when
\* validateDateOfBirth accepts that date of birth in the browser.
C27_AgeChecksAgree ==
    [][\A r \in Slots :
          (req[r].pc = "idle" /\ req'[r].kind = "register"
           /\ req'[r].arg \in DobForms(clock))
          => LET dob == req'[r].arg.dob
                 accepted == req'[r].pc = "register_find"
                 rejected == req'[r].pc = "done" /\ req'[r].resp = Resp(400, AgeMessage)
             IN /\ accepted \/ rejected
                /\ accepted <=> validateDateOfBirth(dob, clock, zone)]_vars

\* the user record with this name and this id is stored
UserExists(us, name, id) == \E u \in us : u.username = name /\ u._id = id

\* C28: in every reachable state both ends of every follow edge are names
\* of stored users, and every comment and every vote names a stored post
\* and, as its author or voter, a stored user.
C28_ReferentialIntegrity ==
    /\ \A f \in BagToSet(follows) :
          Registered(users, f.follower) /\ Registered(users, f.following)
    /\ \A c \in comments :
          PostExists(contents, c.postId) /\ UserExists(users, c.author, c.userId)
    /\ \A l \in likes :
          PostExists(contents, l.postId) /\ UserExists(users, l.user, l.userId)

C28_Witness ==
    /\ follows # EmptyBag
    /\ likes # {}
    /\ comments # {}
    /\ \A r \in Slots : req[r].pc \in {"idle", "done"}

\* a call of loadProfile is in progress
LoadingProfile ==
    \E i \in 1..Len(ui.tasks) : ui.tasks[i].kind = "loadProfile"

\* C29: showPage('profile') and loadProfile call each other only finitely
\* often: the calls are never nested deeper than two per click of the user,
\* every call comes to its end, and whenever no call of loadProfile is in
\* progress isLoadingProfile is false (after a success, a failed fetch or a
\* missing username)
C29_ProfileCallsTerminate ==
    /\ [](ui.depth <= 2 * ui.clicks)
    /\ [](~LoadingProfile => ~ui.isLoadingProfile)
    /\ <>[](ui.tasks = <<>>)

\* loadProfile(u) has shown the profile page, which has loaded the profile
\* again, and all of it is over
C29_Witness ==
    /\ ui.tasks = <<>>
    /\ ui.depth = 2
    /\ ui.clicks = 1
    /\ ui.page = "profile"
    /\ ~ui.isLoadingProfile

\* C30: when the last thing the user did was a click on the follow button,
\* the follow or unfollow request has succeeded, no fetch has failed and
\* every call has ended, the button on display shows "following" exactly
\* when the server stores the edge (logged-in user, viewed profile)
C30_FollowButtonShowsEdge ==
    (/\ ui.toggled # ""
     /\ faults = 0
     /\ ui.tasks = <<>>
     /\ ui.page = "profile"
     /\ ~ui.button.hidden)
        => (ui.button.following <=> FindFollow(follows, session.username, ui.toggled))

====
